---- MODULE Spec2Model ----
(***************************************************************************)
(* A model of the Codenames benchmark harness: the rules engine            *)
(* (codenames_bench/env.py) and the turn engine (codenames_bench/agent.py).*)
(*                                                                         *)
(* Strings are sequences of one-character strings, so that strip() and     *)
(* upper() are computed and not assumed.  Python lists are sequences;      *)
(* positions are 1-based here and 0-based in the source.  A Python list    *)
(* object that is mutated in place (GameState.revealed) lives in `heap`    *)
(* and is held by reference, so that aliasing is visible.                  *)
(***************************************************************************)
EXTENDS Integers, Sequences, FiniteSets, TLC

VARIABLES
    board,      \* the Board of the game (immutable once created)
    heap,       \* list objects: reference -> reveal bitmap
    state,      \* the live GameState: [revealed |-> reference, current_team]
    pc,         \* position of the caller / of take_turn
    call,       \* arguments of the last apply_turn call and the bitmap before it
    outcome,    \* TurnOutcome returned by the last apply_turn call, or NoOutcome
    cfgs,       \* the AgentConfig of each colour (red_cfg, blue_cfg)
    turn,       \* the locals of the take_turn call in progress
    game        \* the locals of play_game

vars == <<board, heap, state, pc, call, outcome, cfgs, turn, game>>

-----------------------------------------------------------------------------
(* Strings *)

LowerLetters == <<"a", "b", "c", "d", "e", "f", "g", "h", "i", "j", "k", "l", "m",
                  "n", "o", "p", "q", "r", "s", "t", "u", "v", "w", "x", "y", "z">>
UpperLetters == <<"A", "B", "C", "D", "E", "F", "G", "H", "I", "J", "K", "L", "M",
                  "N", "O", "P", "Q", "R", "S", "T", "U", "V", "W", "X", "Y", "Z">>

IsWhitespace(c) == c = " "

\* str.upper() on one character
UpperChar(c) ==
    IF \E i \in 1..Len(LowerLetters) : LowerLetters[i] = c
    THEN UpperLetters[CHOOSE i \in 1..Len(LowerLetters) : LowerLetters[i] = c]
    ELSE c

\* str.upper()
upper(s) == [i \in 1..Len(s) |-> UpperChar(s[i])]

\* str.strip(): drop leading and trailing whitespace
strip(s) ==
    LET keep == {i \in 1..Len(s) : ~IsWhitespace(s[i])}
    IN  IF keep = {} THEN <<>>
        ELSE LET lo == CHOOSE i \in keep : \A k \in keep : i <= k
                 hi == CHOOSE i \in keep : \A k \in keep : i >= k
             IN  SubSeq(s, lo, hi)

\* the character class [A-Za-z]
IsLetter(c) ==
    \E i \in 1..Len(LowerLetters) : LowerLetters[i] = c \/ UpperLetters[i] = c

\* a in b for strings: a occurs in b as a contiguous substring
IsSubstring(a, b) ==
    \E i \in 0..(Len(b) - Len(a)) : SubSeq(b, i + 1, i + Len(a)) = a

\* dict.get(key, default) on a parsed JSON object
Get(obj, key, default) == IF key \in DOMAIN obj THEN obj[key] ELSE default

\* x in list
InList(x, list) == \E i \in 1..Len(list) : list[i] = x

\* list.index(x): the first position holding x
IndexOf(x, list) == CHOOSE i \in 1..Len(list) : list[i] = x /\ \A k \in 1..(i - 1) : list[k] # x

-----------------------------------------------------------------------------
(* types.py, boards.py *)

Teams == {"RED", "BLUE"}
CardTypes == {"RED", "BLUE", "NEUTRAL", "ASSASSIN"}
None == "None"

\* Boards the games are played on.  The 25-card deal of generate_board is
\* scaled down keeping its shape: the starting team holds one card more than
\* the opponent, there are neutral cards and exactly one assassin, and the
\* key is shuffled.
Boards == {
    [board_id |-> "board-000000",
     words |-> << <<"C","A","T">>, <<"R","A","T">>, <<"T","A","R">>, <<"A","C","T">>, <<"A","R","C">> >>,
     key |-> <<"RED", "ASSASSIN", "BLUE", "RED", "NEUTRAL">>,
     starting_team |-> "RED"]
}

-----------------------------------------------------------------------------
(* env.py: GameState *)

\* the reveal bitmap a GameState refers to
Revealed(h, st) == h[st.revealed]

\* GameState.unrevealed_words
unrevealed_words(b, rev) ==
    LET F[i \in 0..Len(b.words)] ==
            IF i = 0 THEN <<>>
            ELSE IF ~rev[i] THEN Append(F[i - 1], b.words[i]) ELSE F[i - 1]
    IN  F[Len(b.words)]

\* GameState.remaining
remaining(b, rev, team) ==
    Cardinality({i \in 1..Len(b.key) : ~rev[i] /\ b.key[i] = team})

\* variant: a team is its own opponent
other_team_same(team) == team

\* other_team
other_team(team) == IF team = "RED" THEN "BLUE" ELSE "RED"

NoOutcome == [stopped_reason |-> None]

-----------------------------------------------------------------------------
(* env.py: apply_turn *)

\* variant: the comparison is off by one
limit_reached_late(enforce_max_allowed, j0, max_allowed) ==
    enforce_max_allowed /\ j0 > max_allowed

\* line 98: the guess at source index j0 is beyond the allowed count
limit_reached(enforce_max_allowed, j0, max_allowed) ==
    enforce_max_allowed /\ j0 >= max_allowed

\* line 102: g = guess.strip().upper()
normalise_guess(guess) == upper(strip(guess))

\* variant: the check of the reveal bitmap (lines 115-118) is left out
invalid_or_repeat_no_bitmap(b, rev, seen, g) ==
    \/ g = <<>>
    \/ g \in seen
    \/ ~InList(g, b.words)

\* lines 103-118: the token cannot be played: empty, seen this turn, not a
\* board word, or naming a card that is already revealed
invalid_or_repeat(b, rev, seen, g) ==
    \/ g = <<>>
    \/ g \in seen
    \/ ~InList(g, b.words)
    \/ rev[IndexOf(g, b.words)]

\* variant: the bitmap is rebuilt with only the new card revealed
reveal_rebuilt(rev, idx) == [i \in 1..Len(rev) |-> i = idx]

\* line 121: state.revealed[idx] = True
reveal(rev, idx) == [rev EXCEPT ![idx] = TRUE]

\* variant: winner and loser are exchanged
on_assassin_swapped(team, acc) ==
    [acc EXCEPT !.brk = TRUE, !.game_over = TRUE, !.winner = team,
                !.loser = other_team(team), !.stopped_reason = "assassin"]

\* lines 125-130: the assassin was revealed
on_assassin(team, acc) ==
    [acc EXCEPT !.brk = TRUE, !.game_over = TRUE, !.winner = other_team(team),
                !.loser = team, !.stopped_reason = "assassin"]

\* variant: the completion test looks at the guessing team's cards
on_wrong_own_count(b, team, acc) ==
    IF remaining(b, acc.revealed, team) = 0
    THEN [acc EXCEPT !.brk = TRUE, !.stopped_reason = "wrong", !.game_over = TRUE,
                     !.winner = other_team(team), !.loser = team]
    ELSE [acc EXCEPT !.brk = TRUE, !.stopped_reason = "wrong"]

\* variant: the stop reason of the wrong branch is left at its default
on_wrong_unlabelled(b, team, acc) ==
    IF remaining(b, acc.revealed, other_team(team)) = 0
    THEN [acc EXCEPT !.brk = TRUE, !.game_over = TRUE,
                     !.winner = other_team(team), !.loser = team]
    ELSE [acc EXCEPT !.brk = TRUE]

\* lines 132-140: an opponent or neutral card was revealed
on_wrong(b, team, acc) ==
    IF remaining(b, acc.revealed, other_team(team)) = 0
    THEN [acc EXCEPT !.brk = TRUE, !.stopped_reason = "wrong", !.game_over = TRUE,
                     !.winner = other_team(team), !.loser = team]
    ELSE [acc EXCEPT !.brk = TRUE, !.stopped_reason = "wrong"]

\* variant: the win is recorded but the loop is not left
on_correct_no_break(b, team, acc) ==
    IF remaining(b, acc.revealed, team) = 0
    THEN [acc EXCEPT !.game_over = TRUE, !.winner = team,
                     !.loser = other_team(team)]
    ELSE acc

\* lines 142-149: a card of the team was revealed
on_correct(b, team, acc) ==
    IF remaining(b, acc.revealed, team) = 0
    THEN [acc EXCEPT !.brk = TRUE, !.game_over = TRUE, !.winner = team,
                     !.loser = other_team(team)]
    ELSE acc

\* variant: the stop reason starts as limit
apply_turn_locals_limit(rev) ==
    [j |-> 1, brk |-> FALSE, revealed |-> rev, applied |-> <<>>, seen |-> {},
     stopped_reason |-> "limit", game_over |-> FALSE, winner |-> None,
     loser |-> None]

\* the locals of apply_turn before the loop (lines 88-95)
apply_turn_locals(rev) ==
    [j |-> 1, brk |-> FALSE, revealed |-> rev, applied |-> <<>>, seen |-> {},
     stopped_reason |-> "stop", game_over |-> FALSE, winner |-> None,
     loser |-> None]

\* One iteration of the for loop over guesses (lines 97-149); acc.j is the
\* position of the guess (source index acc.j - 1), acc.brk says the loop was
\* left by break.
apply_turn_step(b, team, max_allowed, guesses, enforce_max_allowed, acc) ==
    LET g == normalise_guess(guesses[acc.j])
    IN  IF limit_reached(enforce_max_allowed, acc.j - 1, max_allowed)
        THEN [acc EXCEPT !.brk = TRUE, !.stopped_reason = "limit"]
        ELSE IF invalid_or_repeat(b, acc.revealed, acc.seen, g)
        THEN [acc EXCEPT !.brk = TRUE, !.stopped_reason = "invalid_or_repeat",
                         !.seen = IF g = <<>> THEN acc.seen ELSE acc.seen \cup {g}]
        ELSE LET idx == IndexOf(g, b.words)
                 ctype == b.key[idx]
                 shown == [acc EXCEPT
                              !.j = acc.j + 1,
                              !.seen = acc.seen \cup {g},
                              !.revealed = reveal(acc.revealed, idx),
                              !.applied = Append(acc.applied,
                                  [word |-> g, index |-> idx, card_type |-> ctype])]
             IN  IF ctype = "ASSASSIN" THEN on_assassin(team, shown)
                 ELSE IF ctype # team THEN on_wrong(b, team, shown)
                 ELSE on_correct(b, team, shown)

RECURSIVE apply_turn_loop(_, _, _, _, _, _)
apply_turn_loop(b, team, max_allowed, guesses, enforce_max_allowed, acc) ==
    IF acc.brk \/ acc.j > Len(guesses) THEN acc
    ELSE apply_turn_loop(b, team, max_allowed, guesses, enforce_max_allowed,
             apply_turn_step(b, team, max_allowed, guesses, enforce_max_allowed, acc))

\* line 87: max_allowed = max(0, number + 1)
max_allowed_of(number) == IF number + 1 > 0 THEN number + 1 ELSE 0

\* apply_turn on the bitmap rev: the bitmap it leaves (the list is mutated in
\* place) and the TurnOutcome it returns.
apply_turn(b, rev, team, clue, number, guesses, enforce_max_allowed) ==
    LET max_allowed == max_allowed_of(number)
        end == apply_turn_loop(b, team, max_allowed, guesses, enforce_max_allowed,
                               apply_turn_locals(rev))
    IN  [revealed |-> end.revealed,
         outcome |-> [team |-> team, clue |-> clue, number |-> number,
                      max_allowed |-> max_allowed, guesses |-> guesses,
                      applied |-> end.applied,
                      stopped_reason |-> end.stopped_reason,
                      game_over |-> end.game_over,
                      winner |-> end.winner, loser |-> end.loser]]

\* init_game_state: every reveal flag false, current_team = starting_team.
\* The source allocates [False] * 25, one flag per card of a generated board;
\* here the bitmap has one flag per card of the scaled-down board.
init_game_state(b, ref) ==
    [bitmap |-> [i \in 1..Len(b.words) |-> FALSE],
     state |-> [revealed |-> ref, current_team |-> b.starting_team]]

-----------------------------------------------------------------------------
(* A caller of the rules engine: apply_turn called with arbitrary arguments *)
(* on the live state, again and again (as the tests and the agent do).      *)

MaxGuesses == 3

\* the default of apply_turn's keyword argument; no caller passes another value
enforce_max_allowed_default == TRUE

\* number arguments: negative (max_allowed clamps to 0), 0 and 1
Numbers == {-2, 0, 1}

Clues == {<<"Z","A","P">>}

\* Strings a caller may pass as guesses: the board words as written, a
\* lower-case padded spelling of the first one, a blank string and a word
\* that is not on the board.
RawGuesses(b) ==
    {b.words[i] : i \in 1..Len(b.words)}
        \cup {<<" ", "c", "a", "t", " ">>, <<" ">>, <<"Z","A","P">>}

GuessLists(b) == UNION {[1..n -> RawGuesses(b)] : n \in 0..MaxGuesses}

NoCall == [team |-> None]

InitRules ==
    /\ board \in Boards
    /\ heap = <<init_game_state(board, 1).bitmap>>
    /\ state = init_game_state(board, 1).state
    /\ pc = "idle"
    /\ call = NoCall
    /\ outcome = NoOutcome
    /\ cfgs = None
    /\ turn = None
    /\ game = None

\* apply_turn(state, team, clue, number, guesses, enforce_max_allowed=...)
CallApplyTurn ==
    /\ pc = "idle"
    /\ \E team \in Teams, clue \in Clues, number \in Numbers,
          guesses \in GuessLists(board), enforce \in {enforce_max_allowed_default} :
          LET r == apply_turn(board, Revealed(heap, state), team, clue, number,
                              guesses, enforce)
          IN  /\ heap' = [heap EXCEPT ![state.revealed] = r.revealed]
              /\ outcome' = r.outcome
              /\ call' = [team |-> team, number |-> number, guesses |-> guesses,
                          enforce_max_allowed |-> enforce,
                          before |-> Revealed(heap, state)]
    /\ pc' = "returned"
    /\ UNCHANGED <<board, state, cfgs, turn, game>>

\* the caller drops the outcome and is ready for the next call
Return ==
    /\ pc = "returned"
    /\ pc' = "idle"
    /\ call' = NoCall
    /\ outcome' = NoOutcome
    /\ UNCHANGED <<board, heap, state, cfgs, turn, game>>

NextRules == CallApplyTurn \/ Return

SpecRules == InitRules /\ [][NextRules]_vars

-----------------------------------------------------------------------------
(* legality.py *)

_BANNED_CLUES ==
    { <<"N","O","N","E">>, <<"N","I","L">>, <<"Z","E","R","O">>, <<"S","T","O","P">>,
      <<"P","A","S","S">>, <<"S","K","I","P">>, <<"L","E","F","T">>,
      <<"R","I","G","H","T">>, <<"T","O","P">>, <<"B","O","T","T","O","M">>,
      <<"F","I","R","S","T">>, <<"S","E","C","O","N","D">>, <<"T","H","I","R","D">> }

\* re.sub(r"[^A-Za-z]", "", s): the letters of s, in order
RECURSIVE letters_only(_)
letters_only(s) ==
    IF s = <<>> THEN <<>>
    ELSE IF IsLetter(Head(s)) THEN <<Head(s)>> \o letters_only(Tail(s))
    ELSE letters_only(Tail(s))

\* normalize_token
normalize_token(s) == upper(letters_only(s))

\* the longest clue is_single_word accepts: one letter and {0,31} more
MaxClueLen == 32

\* is_single_word: fullmatch [A-Za-z][A-Za-z']{0,31} on the stripped clue
is_single_word(clue) ==
    LET c == strip(clue)
    IN  /\ Len(c) >= 1
        /\ Len(c) <= MaxClueLen
        /\ IsLetter(c[1])
        /\ \A i \in 2..Len(c) : IsLetter(c[i]) \/ c[i] = "'"

Ok == [tag |-> "ok", arg |-> <<>>]
Reason(tag, arg) == [tag |-> tag, arg |-> arg]

\* variant: only a clue inside a board word counts as an overlap
RECURSIVE board_overlap_one_way(_, _, _)
board_overlap_one_way(clue_norm, board_words, i) ==
    IF i > Len(board_words) THEN Ok
    ELSE LET w_raw == board_words[i]
             w_norm == normalize_token(w_raw)
         IN  IF clue_norm = w_norm THEN Reason("matches_board_word", w_raw)
             ELSE IF clue_norm # <<>> /\ w_norm # <<>> /\ IsSubstring(clue_norm, w_norm)
             THEN Reason("substring_overlap", w_raw)
             ELSE IF clue_norm \o <<"S">> = w_norm
             THEN Reason("plural_variant", w_raw)
             ELSE board_overlap_one_way(clue_norm, board_words, i + 1)

\* the loop of is_legal_clue over the board words, from position i on
RECURSIVE board_overlap(_, _, _)
board_overlap(clue_norm, board_words, i) ==
    IF i > Len(board_words) THEN Ok
    ELSE LET w_raw == board_words[i]
             w_norm == normalize_token(w_raw)
         IN  IF clue_norm = w_norm THEN Reason("matches_board_word", w_raw)
             ELSE IF clue_norm # <<>> /\ w_norm # <<>>
                     /\ (IsSubstring(clue_norm, w_norm) \/ IsSubstring(w_norm, clue_norm))
             THEN Reason("substring_overlap", w_raw)
             ELSE IF clue_norm \o <<"S">> = w_norm \/ w_norm \o <<"S">> = clue_norm
             THEN Reason("plural_variant", w_raw)
             ELSE board_overlap(clue_norm, board_words, i + 1)

\* is_legal_clue: the reason, Ok when the clue is legal
is_legal_clue(clue, board_words) ==
    LET clue_raw == strip(clue)
        clue_norm == normalize_token(clue_raw)
    IN  IF clue_raw = <<>> THEN Reason("empty", <<>>)
        ELSE IF ~is_single_word(clue_raw) THEN Reason("not_single_word", <<>>)
        ELSE IF clue_norm = <<>> THEN Reason("no_letters", <<>>)
        ELSE IF clue_norm \in _BANNED_CLUES THEN Reason("banned_meta_word", <<>>)
        ELSE board_overlap(clue_norm, board_words, 1)

\* variant: the legal candidates are collected last first
RECURSIVE filter_legal_clues_reversed(_, _)
filter_legal_clues_reversed(candidates, board_words) ==
    IF candidates = <<>> THEN [legal |-> <<>>, rejected |-> <<>>]
    ELSE LET c == Head(candidates)
             clue == strip(c.clue)
             reason == is_legal_clue(clue, board_words)
             rest == filter_legal_clues_reversed(Tail(candidates), board_words)
         IN  IF reason = Ok
             THEN [rest EXCEPT !.legal = rest.legal \o <<[c EXCEPT !.clue = clue]>>]
             ELSE [rest EXCEPT !.rejected =
                      <<[clue |-> clue, number |-> c.number, _raw |-> c._raw,
                         _reject_reason |-> reason]>> \o rest.rejected]

\* filter_legal_clues: the candidates in order, split into the legal ones and
\* the rejected ones (with _reject_reason); both carry the stripped clue
RECURSIVE filter_legal_clues(_, _)
filter_legal_clues(candidates, board_words) ==
    IF candidates = <<>> THEN [legal |-> <<>>, rejected |-> <<>>]
    ELSE LET c == Head(candidates)
             clue == strip(c.clue)
             reason == is_legal_clue(clue, board_words)
             rest == filter_legal_clues(Tail(candidates), board_words)
         IN  IF reason = Ok
             THEN [rest EXCEPT !.legal = <<[c EXCEPT !.clue = clue]>> \o rest.legal]
             ELSE [rest EXCEPT !.rejected =
                      <<[clue |-> clue, number |-> c.number, _raw |-> c._raw,
                         _reject_reason |-> reason]>> \o rest.rejected]

-----------------------------------------------------------------------------
(* Parsed JSON, as the LLM client hands it to the agent.  An object is      *)
(* Dict(d) with d a record of its members, an array is List(items); a       *)
(* number member is Int(v), and a string that int() or float() cannot       *)
(* convert is NaNStr.                                                       *)

Dict(d) == [kind |-> "dict", d |-> d]
List(items) == [kind |-> "list", items |-> items]
IntV(v) == [kind |-> "int", v |-> v]
NaNStr == [kind |-> "str", v |-> "two"]
Null == [kind |-> "null"]
IsDict(x) == x.kind = "dict"
IsList(x) == x.kind = "list"

\* int(x): ok is false when the conversion raises
int_of(x) == IF x.kind = "int" THEN [ok |-> TRUE, v |-> x.v] ELSE [ok |-> FALSE, v |-> 0]

Min(a, b) == IF a <= b THEN a ELSE b
Max(a, b) == IF a >= b THEN a ELSE b

\* list[:m], with Python's reading of a negative m
SliceTo(list, m) ==
    IF m >= 0 THEN SubSeq(list, 1, Min(m, Len(list)))
    ELSE SubSeq(list, 1, Max(0, Len(list) + m))

-----------------------------------------------------------------------------
(* scoring.py.  Utilities are kept in tenths, so that the weights 1.0,     *)
(* -1.0, -0.3 and -10.0 are the integers below and sums are exact.          *)

DEFAULT_WEIGHTS == [correct |-> 10, opponent |-> -10, neutral |-> -3, assassin |-> -100]

\* variant: a card of neither team and not the assassin weighs as an
\* opponent's card
guess_weight_no_neutral(w, team, card_type) ==
    IF card_type = team THEN w.correct
    ELSE IF card_type = "ASSASSIN" THEN w.assassin
    ELSE w.opponent

\* the weight turn_utility adds for one applied guess
guess_weight(w, team, card_type) ==
    IF card_type = team THEN w.correct
    ELSE IF card_type = "ASSASSIN" THEN w.assassin
    ELSE IF card_type \in {"RED", "BLUE"} THEN w.opponent
    ELSE w.neutral

\* turn_utility
RECURSIVE turn_utility_from(_, _, _)
turn_utility_from(o, w, k) ==
    IF k > Len(o.applied) THEN 0
    ELSE guess_weight(w, o.team, o.applied[k].card_type) + turn_utility_from(o, w, k + 1)

turn_utility(o, weights) ==
    turn_utility_from(o, IF weights = None THEN DEFAULT_WEIGHTS ELSE weights, 1)

-----------------------------------------------------------------------------
(* agent.py: helpers *)

\* float(x) clamped to [0, 1], in tenths; 0.5 when the conversion raises
clamp_confidence(x) ==
    IF x.kind = "int" THEN Max(0, Min(10, x.v)) ELSE 5

\* _parse_guesser_output
RECURSIVE parse_guess_items(_)
parse_guess_items(items) ==
    IF items = <<>> THEN [guesses |-> <<>>, confidences |-> <<>>]
    ELSE LET item == Head(items)
             rest == parse_guess_items(Tail(items))
         IN  IF ~IsDict(item) THEN rest
             ELSE LET w == upper(strip(Get(item.d, "word", <<>>)))
                      c == clamp_confidence(Get(item.d, "confidence", IntV(5)))
                  IN  IF w # <<>>
                      THEN [guesses |-> <<w>> \o rest.guesses,
                            confidences |-> <<c>> \o rest.confidences]
                      ELSE rest

_parse_guesser_output(obj) ==
    IF IsDict(obj)
    THEN LET g == Get(obj.d, "guesses", List(<<>>))
         IN  IF IsList(g) THEN parse_guess_items(g.items)
             ELSE [guesses |-> <<>>, confidences |-> <<>>]
    ELSE [guesses |-> <<>>, confidences |-> <<>>]

\* _sanitize_guesses: the loop body appends before it tests the length
RECURSIVE sanitize_from(_, _, _, _)
sanitize_from(guesses, max_allowed, out, seen) ==
    IF guesses = <<>> THEN out
    ELSE LET gg == upper(strip(Head(guesses)))
         IN  IF gg = <<>> \/ gg \in seen
             THEN sanitize_from(Tail(guesses), max_allowed, out, seen)
             ELSE IF Len(out) + 1 >= max_allowed THEN Append(out, gg)
             ELSE sanitize_from(Tail(guesses), max_allowed, Append(out, gg),
                                seen \cup {gg})

_sanitize_guesses(guesses, max_allowed) == sanitize_from(guesses, max_allowed, <<>>, {})

-----------------------------------------------------------------------------
(* Exact arithmetic for the statistics of a sample of utilities.  A value   *)
(* is (a + b * sqrt(D)) / den with integers a, b, D >= 0 and den > 0, so    *)
(* that a mean, a population standard deviation and their combination are  *)
(* compared as real numbers.                                                *)

Surd(a, b, D, den) == [a |-> a, b |-> b, D |-> D, den |-> den]
Sgn(x) == IF x > 0 THEN 1 ELSE IF x < 0 THEN -1 ELSE 0

\* the sign of a + b * sqrt(D)
Sgn2(a, b, D) ==
    IF b = 0 \/ D = 0 THEN Sgn(a)
    ELSE IF a = 0 THEN Sgn(b)
    ELSE IF Sgn(a) = Sgn(b) THEN Sgn(a)
    ELSE IF a * a > b * b * D THEN Sgn(a)
    ELSE IF a * a < b * b * D THEN Sgn(b)
    ELSE 0

\* the sign of p + q * sqrt(D1) + r * sqrt(D2)
Sgn3(p, q, D1, r, D2) ==
    LET sx == Sgn2(p, q, D1)
        sy == Sgn2(0, 0 - r, D2)
    IN  IF sx # sy THEN (IF sx > sy THEN 1 ELSE -1)
        ELSE IF sx = 0 THEN 0
        ELSE sx * Sgn2(p * p + q * q * D1 - r * r * D2, 2 * p * q, D1)

\* the integer square root of D: the greatest r from r0 on with r * r <= D
RECURSIVE isqrt_from(_, _)
isqrt_from(D, r0) == IF (r0 + 1) * (r0 + 1) > D THEN r0 ELSE isqrt_from(D, r0 + 1)

Abs(m) == IF m < 0 THEN 0 - m ELSE m

RECURSIVE Gcd(_, _)
Gcd(m, n) == IF n = 0 THEN Abs(m) ELSE Gcd(Abs(n), Abs(m) % Abs(n))

\* the same number in lowest terms, a square D folded into the rational part
Normal(x) ==
    LET r == isqrt_from(x.D, 0)
        y == IF x.b = 0 \/ r * r = x.D
             THEN [a |-> x.a + x.b * r, b |-> 0, D |-> 0, den |-> x.den]
             ELSE x
        g == Gcd(Gcd(y.a, y.b), y.den)
    IN  [a |-> y.a \div g, b |-> y.b \div g, D |-> y.D, den |-> y.den \div g]

\* the sign of x - y
Cmp(x, y) ==
    LET nx == Normal(x)
        ny == Normal(y)
    IN  Sgn3(nx.a * ny.den - ny.a * nx.den, nx.b * ny.den, nx.D,
             0 - ny.b * nx.den, ny.D)

Neg(x) == [x EXCEPT !.a = 0 - x.a, !.b = 0 - x.b]

RECURSIVE SumSeq(_)
SumSeq(u) == IF u = <<>> THEN 0 ELSE Head(u) + SumSeq(Tail(u))

RECURSIVE SumSquares(_)
SumSquares(u) == IF u = <<>> THEN 0 ELSE Head(u) * Head(u) + SumSquares(Tail(u))

\* statistics.mean
mean(u) == Surd(SumSeq(u), 0, 0, Len(u))

\* statistics.pstdev: sqrt(n * sum(u^2) - sum(u)^2) / n
pstdev(u) == Surd(0, 1, Len(u) * SumSquares(u) - SumSeq(u) * SumSeq(u), Len(u))

\* sorted(utilities)
RECURSIVE sorted(_)
sorted(u) ==
    IF u = <<>> THEN <<>>
    ELSE LET i == CHOOSE i \in 1..Len(u) : \A k \in 1..Len(u) : u[i] <= u[k]
         IN  <<u[i]>> \o sorted(SubSeq(u, 1, i - 1) \o SubSeq(u, i + 1, Len(u)))

\* variant: the deviation is added
mean_plus_lambda_std(mean_u, std_u, lambda_std) ==
    Surd(10 * mean_u.a * std_u.den, lambda_std * std_u.b * mean_u.den, std_u.D,
         10 * mean_u.den * std_u.den)

\* mean_u - lambda_std * std_u, lambda_std given in tenths
mean_minus_lambda_std(mean_u, std_u, lambda_std) ==
    Surd(10 * mean_u.a * std_u.den, 0 - lambda_std * std_u.b * mean_u.den, std_u.D,
         10 * mean_u.den * std_u.den)

\* _aggregate_score
_aggregate_score(mean_u, std_u, utilities, aggregate, lambda_std) ==
    IF aggregate = "mean" THEN mean_u
    ELSE IF aggregate = "mean_minus_lambda_std"
    THEN mean_minus_lambda_std(mean_u, std_u, lambda_std)
    ELSE IF aggregate = "p10"
    THEN IF utilities = <<>> THEN mean_u
         ELSE Surd(sorted(utilities)[((Len(utilities) - 1) \div 10) + 1], 0, 0, 1)
    ELSE mean_minus_lambda_std(mean_u, std_u, lambda_std)

\* the statistics at the end of _evaluate_candidate (lines 338-353)
evaluation_of(cand, samples, aggregate, lambda_std) ==
    LET us == [i \in 1..Len(samples) |-> samples[i].utility]
        utilities == IF us = <<>> THEN <<0>> ELSE us
        mean_u == mean(utilities)
        std_u == IF Len(utilities) > 1 THEN pstdev(utilities) ELSE Surd(0, 0, 0, 1)
    IN  [candidate |-> cand, samples |-> samples, mean_utility |-> mean_u,
         std_utility |-> std_u,
         selection_score |-> _aggregate_score(mean_u, std_u, utilities, aggregate,
                                              lambda_std)]

\* the key of PICK is greater for e than for f: (selection_score, mean_utility,
\* -std_utility), compared as Python compares tuples
key_greater(e, f) ==
    LET c1 == Cmp(e.selection_score, f.selection_score)
        c2 == Cmp(e.mean_utility, f.mean_utility)
        c3 == Cmp(Neg(e.std_utility), Neg(f.std_utility))
    IN  c1 > 0 \/ (c1 = 0 /\ (c2 > 0 \/ (c2 = 0 /\ c3 > 0)))

\* variant: a later element with an equal key replaces the best so far
RECURSIVE max_from_last(_, _, _)
max_from_last(evals, best, i) ==
    IF i > Len(evals) THEN best
    ELSE max_from_last(evals,
                       IF key_greater(best, evals[i]) THEN best ELSE evals[i], i + 1)

\* max(evals, key=...): the first element whose key no other exceeds
RECURSIVE max_from(_, _, _)
max_from(evals, best, i) ==
    IF i > Len(evals) THEN best
    ELSE max_from(evals, IF key_greater(evals[i], best) THEN evals[i] ELSE best, i + 1)

pick_best(evals) == max_from(evals, evals[1], 2)

-----------------------------------------------------------------------------
(* types.py: agent configurations.  Only the members that decide control   *)
(* flow are kept; lambda_std is in tenths.                                  *)

KCallsAgent ==
    [name |-> "agent-k-calls",
     spymaster |-> [candidates_per_turn |-> 2, generation_mode |-> "k_calls"],
     selection |-> [eval_samples_per_candidate |-> 2,
                    aggregate |-> "mean_minus_lambda_std", lambda_std |-> 7,
                    max_eval_candidates |-> Null]]

OneCallAgent ==
    [name |-> "agent-one-call",
     spymaster |-> [candidates_per_turn |-> 2, generation_mode |-> "one_call_list"],
     selection |-> [eval_samples_per_candidate |-> 2,
                    aggregate |-> "mean_minus_lambda_std", lambda_std |-> 7,
                    max_eval_candidates |-> Null]]

\* red_cfg and blue_cfg of the games played
Matches == {[RED |-> KCallsAgent, BLUE |-> OneCallAgent]}

\* max_turns of play_game
MaxTurns == 3

-----------------------------------------------------------------------------
(* What the models answer.  A create_json call either raises or returns a   *)
(* response whose parsed member is the model's JSON.                        *)

Raises == [kind |-> "error"]
Returns(parsed) == [kind |-> "ok", parsed |-> parsed]

\* clue proposals of the spymaster model: two legal clues and a board word,
\* in lower case and spelled as on the board
SpymasterClues ==
    { [clue |-> <<" ", "z", "a", "p">>, number |-> IntV(1)],
      [clue |-> <<"Z", "i", "p">>, number |-> IntV(2)],
      [clue |-> <<"c", "a", "t">>, number |-> IntV(1)],
      [clue |-> <<"C", "A", "T">>, number |-> IntV(1)] }

\* answers to a single-candidate spymaster call
SpymasterResponses == {Raises} \cup {Returns(Dict(c)) : c \in SpymasterClues}

\* answers to a one_call_list spymaster call with maxItems = K
SpymasterListResponses(K) ==
    {Raises} \cup
    {Returns(Dict([candidates |-> List([i \in 1..Len(cs) |-> Dict(cs[i])])])) :
        cs \in UNION {[1..n -> SpymasterClues] : n \in 1..K}}

Item(word, confidence) == Dict([word |-> word, confidence |-> confidence])

\* guess lists of the guesser model: padded, lower-case and repeated spellings
\* and a word that is not on the board; a neutral card
RolloutGuesses ==
    { <<Item(<<" ", "c", "a", "t", " ">>, IntV(12)), Item(<<"C", "A", "T">>, IntV(3)),
        Item(<<"z", "a", "p">>, NaNStr)>>,
      <<Item(<<"a", "r", "c">>, IntV(7))>> }

\* further guess lists for the real turn: the other cards of the board
PlayGuesses ==
    RolloutGuesses \cup
    { <<Item(<<"a", "c", "t">>, IntV(9)), Item(<<"c", "a", "t">>, IntV(9))>>,
      <<Item(<<"t", "a", "r">>, IntV(5))>>,
      <<Item(<<"r", "a", "t">>, IntV(1))>> }

GuesserResponse(items) == Returns(Dict([guesses |-> List(items)]))
RolloutResponses == {Raises} \cup {GuesserResponse(g) : g \in RolloutGuesses}
PlayResponses == {Raises} \cup {GuesserResponse(g) : g \in PlayGuesses}

-----------------------------------------------------------------------------
(* env.py: GameState.copy *)

\* variant: the copy shares the list of the original
copy_shared(h, st) == [heap |-> h, state |-> st]

\* GameState.copy: a new list object with the flags of the original; the list
\* of the previous copy, which nothing refers to any more, is dropped
copy(h, st) ==
    [heap |-> <<h[1], h[st.revealed]>>,
     state |-> [revealed |-> 2, current_team |-> st.current_team]]

-----------------------------------------------------------------------------
(* agent.py: TeamAgent.take_turn, stage by stage *)

\* no GameState object: the reference of its bitmap is null
NoState == [revealed |-> 0, current_team |-> None]

\* no response: the call was not made
NoResponse == [kind |-> "none"]

\* the locals of take_turn when it is entered; agent is the configuration of
\* the TeamAgent called, start is the live bitmap then, sim_state the copy a
\* rollout of the running _evaluate_candidate works on, fallback_resp the
\* answer to the call of _fallback_candidate, error the exception raised
new_turn(agent, team, rev) ==
    [agent |-> agent, team |-> team, start |-> rev, error |-> None,
     fallback_resp |-> NoResponse, candidates_raw |-> <<>>,
     rejected_generation |-> <<>>, final_legal |-> <<>>, rejected_all |-> <<>>,
     eval_candidates |-> <<>>, ci |-> 1, samples |-> <<>>, evals |-> <<>>,
     sim_state |-> NoState, best |-> None, guesses |-> <<>>, confidences |-> <<>>,
     raw_guesses |-> <<>>, log |-> None]

\* _generate_candidates, k_calls: the answers of the K calls in order
RECURSIVE gen_k_calls(_)
gen_k_calls(resps) ==
    IF resps = <<>> THEN [results |-> <<>>, rejected |-> <<>>]
    ELSE LET r == Head(resps)
             rest == gen_k_calls(Tail(resps))
         IN  IF r.kind = "error"
             THEN [rest EXCEPT !.rejected =
                      <<[_reject_reason |-> Reason("spymaster_call_failed", <<>>)]>>
                          \o rest.rejected]
             ELSE IF IsDict(r.parsed)
             THEN [rest EXCEPT !.results = <<r.parsed.d>> \o rest.results]
             ELSE [rest EXCEPT !.rejected =
                      <<[_reject_reason |-> Reason("spymaster_non_dict", <<>>)]>>
                          \o rest.rejected]

\* _generate_candidates, one_call_list: the candidates of the one answer
RECURSIVE gen_one_call(_)
gen_one_call(cands) ==
    IF cands = <<>> THEN [results |-> <<>>, rejected |-> <<>>]
    ELSE LET c == Head(cands)
             rest == gen_one_call(Tail(cands))
         IN  IF IsDict(c)
             THEN [rest EXCEPT !.results = <<c.d>> \o rest.results]
             ELSE [rest EXCEPT !.rejected =
                      <<[_reject_reason |-> Reason("non_dict_candidate", <<>>)]>>
                          \o rest.rejected]

\* lines 79-87: the candidate dicts handed to the legality filter
cand_dicts(candidates_raw) ==
    [i \in 1..Len(candidates_raw) |->
        [clue |-> Get(candidates_raw[i], "clue", <<>>),
         number |-> Get(candidates_raw[i], "number", IntV(1)),
         _raw |-> candidates_raw[i]]]

\* variant: the number is compared with the remaining cards only
RECURSIVE number_pass_uncapped(_, _)
number_pass_uncapped(legal, rem) ==
    IF legal = <<>> THEN [final_legal |-> <<>>, rejected_number |-> <<>>]
    ELSE LET c == Head(legal)
             n == int_of(c.number)
             rest == number_pass_uncapped(Tail(legal), rem)
             reject(reason) ==
                 [rest EXCEPT !.rejected_number =
                     <<[clue |-> c.clue, number |-> c.number, _raw |-> c._raw,
                        _reject_reason |-> reason]>> \o rest.rejected_number]
         IN  IF ~n.ok THEN reject(Reason("bad_number", <<>>))
             ELSE IF n.v < 1 THEN reject(Reason("number_lt_1", <<>>))
             ELSE IF n.v > rem THEN reject(Reason("number_gt_remaining", rem))
             ELSE [rest EXCEPT !.final_legal = <<c>> \o rest.final_legal]

\* lines 96-108: the number-range pass
RECURSIVE number_pass(_, _)
number_pass(legal, rem) ==
    IF legal = <<>> THEN [final_legal |-> <<>>, rejected_number |-> <<>>]
    ELSE LET c == Head(legal)
             n == int_of(c.number)
             rest == number_pass(Tail(legal), rem)
             reject(reason) ==
                 [rest EXCEPT !.rejected_number =
                     <<[clue |-> c.clue, number |-> c.number, _raw |-> c._raw,
                        _reject_reason |-> reason]>> \o rest.rejected_number]
         IN  IF ~n.ok THEN reject(Reason("bad_number", <<>>))
             ELSE IF n.v < 1 THEN reject(Reason("number_lt_1", <<>>))
             ELSE IF n.v > Min(9, rem) THEN reject(Reason("number_gt_remaining", rem))
             ELSE [rest EXCEPT !.final_legal = <<c>> \o rest.final_legal]

MYSTERY == <<"M", "Y", "S", "T", "E", "R", "Y">>

\* _fallback_candidate: the candidate made of the answer of the extra call
fallback_of(resp) ==
    LET hard == [clue |-> MYSTERY, number |-> IntV(1), _raw |-> [fallback |-> TRUE]]
    IN  IF resp.kind = "error" THEN hard
        ELSE LET parsed == IF IsDict(resp.parsed) THEN resp.parsed.d ELSE <<>>
                 number == int_of(Get(parsed, "number", IntV(1)))
             IN  IF ~number.ok THEN hard
                 ELSE [clue |-> strip(Get(parsed, "clue", MYSTERY)),
                       number |-> IntV(number.v), _raw |-> parsed]

\* variant: the last legal candidate is never evaluated
eval_candidates_drop_last(final_legal, max_eval_candidates) ==
    SliceTo(final_legal, Len(final_legal) - 1)

\* lines 119-120: the candidates EVAL evaluates
eval_candidates_of(final_legal, max_eval_candidates) ==
    LET max_eval == IF max_eval_candidates = Null \/ max_eval_candidates.v = 0
                    THEN Len(final_legal) ELSE max_eval_candidates.v
    IN  SliceTo(final_legal, max_eval)

\* lines 124-130: Candidate(clue=str(c["clue"]).strip(), number=int(c["number"]))
candidate_of(c) ==
    [clue |-> strip(c.clue), number |-> int_of(c.number).v, raw |-> c._raw]

\* lines 143, 295: max_allowed = min(number + 1, len(unrevealed_words()))
guess_cap(number, b, rev) == Min(number + 1, Len(unrevealed_words(b, rev)))

\* the guesses a guesser answer yields: parsed, then sanitised
guesses_of(resp, max_allowed) ==
    LET p == _parse_guesser_output(resp.parsed)
    IN  [guesses |-> _sanitize_guesses(p.guesses, max_allowed),
         confidences |-> p.confidences, raw |-> p.guesses]

\* self.cfg of the agent whose take_turn runs
cfg == turn.agent

\* variant: the turn is handed on while the exception leaves
Raise_after_advance(error) ==
    /\ pc' = "raised"
    /\ turn' = [turn EXCEPT !.error = error]
    /\ state' = [state EXCEPT !.current_team = other_team(turn.team)]
    /\ UNCHANGED <<board, heap, call, outcome, cfgs, game>>

\* an exception leaves take_turn; play_game (line 39) and run_match (lines
\* 97, 114) call without a handler, so it leaves them too
Raise(error) ==
    /\ pc' = "raised"
    /\ turn' = [turn EXCEPT !.error = error]
    /\ UNCHANGED <<board, heap, state, call, outcome, cfgs, game>>

\* GEN (lines 76, 195-261): _generate_candidates
Gen ==
    /\ pc = "GEN"
    /\ LET K == Max(1, cfg.spymaster.candidates_per_turn)
       IN  IF cfg.spymaster.generation_mode = "one_call_list"
           THEN \E resp \in SpymasterListResponses(K) :
                   IF resp.kind = "error" THEN Raise("spymaster_call_failed")
                   ELSE LET parsed == resp.parsed
                            cands == IF IsDict(parsed)
                                     THEN Get(parsed.d, "candidates", List(<<>>)).items
                                     ELSE <<>>
                            r == gen_one_call(cands)
                        IN  /\ turn' = [turn EXCEPT !.candidates_raw = r.results,
                                                    !.rejected_generation = r.rejected]
                            /\ pc' = "LEGAL"
                            /\ UNCHANGED <<board, heap, state, call, outcome, cfgs, game>>
           ELSE \E resps \in [1..K -> SpymasterResponses] :
                   LET r == gen_k_calls(resps)
                   IN  /\ turn' = [turn EXCEPT !.candidates_raw = r.results,
                                               !.rejected_generation = r.rejected]
                       /\ pc' = "LEGAL"
                       /\ UNCHANGED <<board, heap, state, call, outcome, cfgs, game>>

\* LEGAL (lines 78-110): the legality filter and the number-range pass; with
\* survivors, lines 119-120 choose the candidates to evaluate
Legal ==
    /\ pc = "LEGAL"
    /\ LET f == filter_legal_clues(cand_dicts(turn.candidates_raw), board.words)
           rem == remaining(board, Revealed(heap, state), turn.team)
           n == number_pass(f.legal, rem)
           rejected_all == turn.rejected_generation \o f.rejected \o n.rejected_number
           evalc == eval_candidates_of(n.final_legal,
                                       cfg.selection.max_eval_candidates)
       IN  /\ turn' = [turn EXCEPT !.final_legal = n.final_legal,
                                   !.rejected_all = rejected_all,
                                   !.eval_candidates = evalc]
           /\ pc' = IF n.final_legal = <<>> THEN "FALLBACK"
                    ELSE IF evalc = <<>> THEN "PICK" ELSE "EVAL"
    /\ UNCHANGED <<board, heap, state, call, outcome, cfgs, game>>

\* FALLBACK (lines 113-116, 263-291): one more spymaster call
Fallback ==
    /\ pc = "FALLBACK"
    /\ \E resp \in SpymasterResponses :
          LET fallback == fallback_of(resp)
              final_legal == <<fallback>>
              evalc == eval_candidates_of(final_legal,
                                          cfg.selection.max_eval_candidates)
          IN  /\ turn' = [turn EXCEPT
                     !.fallback_resp = resp,
                     !.final_legal = final_legal,
                     !.rejected_all = Append(turn.rejected_all,
                         [_reject_reason |->
                              Reason("no_legal_candidates_fallback_used", <<>>),
                          fallback |-> fallback]),
                     !.eval_candidates = evalc]
              /\ pc' = IF evalc = <<>> THEN "PICK" ELSE "EVAL"
    /\ UNCHANGED <<board, heap, state, call, outcome, cfgs, game>>

\* EVAL (lines 123-132, 293-353): one rollout of _evaluate_candidate for the
\* candidate turn.ci: guesser call, sanitising, replay on a copy, utility.
\* The last rollout of a candidate also computes its statistics and returns.
EvalRollout ==
    /\ pc = "EVAL"
    /\ \E resp \in RolloutResponses :
          IF resp.kind = "error" THEN Raise("guesser_call_failed")
          ELSE LET cand == candidate_of(turn.eval_candidates[turn.ci])
                   G == Max(1, cfg.selection.eval_samples_per_candidate)
                   max_allowed == guess_cap(cand.number, board, Revealed(heap, state))
                   gs == guesses_of(resp, max_allowed)
                   sim == copy(heap, state)
                   r == apply_turn(board, Revealed(sim.heap, sim.state), turn.team,
                                   cand.clue, cand.number, gs.guesses,
                                   enforce_max_allowed_default)
                   heap2 == [sim.heap EXCEPT ![sim.state.revealed] = r.revealed]
                   sample == [guesses |-> gs.guesses, confidences |-> gs.confidences,
                              raw_guesses |-> gs.raw, outcome |-> r.outcome,
                              utility |-> turn_utility(r.outcome, None)]
                   samples == Append(turn.samples, sample)
               IN  IF Len(samples) < G
                   THEN /\ turn' = [turn EXCEPT !.samples = samples,
                                                !.sim_state = sim.state]
                        /\ heap' = heap2
                        /\ pc' = "EVAL"
                        /\ UNCHANGED <<board, state, call, outcome, cfgs, game>>
                   ELSE /\ turn' = [turn EXCEPT
                               !.samples = <<>>,
                               !.sim_state = NoState,
                               !.ci = turn.ci + 1,
                               !.evals = Append(turn.evals,
                                   evaluation_of(cand, samples,
                                                 cfg.selection.aggregate,
                                                 cfg.selection.lambda_std))]
                        /\ heap' = <<heap2[1]>>
                        /\ pc' = IF turn.ci = Len(turn.eval_candidates)
                                 THEN "PICK" ELSE "EVAL"
                        /\ UNCHANGED <<board, state, call, outcome, cfgs, game>>

\* PICK (lines 135-140): max() raises on an empty list of evaluations
Pick ==
    /\ pc = "PICK"
    /\ IF turn.evals = <<>> THEN Raise("max_of_empty_sequence")
       ELSE /\ turn' = [turn EXCEPT !.best = pick_best(turn.evals)]
            /\ pc' = "PLAY"
            /\ UNCHANGED <<board, heap, state, call, outcome, cfgs, game>>

\* PLAY (lines 143-167): the real guesser call, parsed and sanitised
Play ==
    /\ pc = "PLAY"
    /\ \E resp \in PlayResponses :
          IF resp.kind = "error" THEN Raise("guesser_call_failed")
          ELSE LET chosen == turn.best.candidate
                   max_allowed == guess_cap(chosen.number, board, Revealed(heap, state))
                   gs == guesses_of(resp, max_allowed)
               IN  /\ turn' = [turn EXCEPT !.guesses = gs.guesses,
                                           !.confidences = gs.confidences,
                                           !.raw_guesses = gs.raw]
                   /\ pc' = "APPLY"
                   /\ UNCHANGED <<board, heap, state, call, outcome, cfgs, game>>

\* APPLY (lines 170-189): apply_turn on the live state, the turn log, return
Apply ==
    /\ pc = "APPLY"
    /\ LET chosen == turn.best.candidate
           r == apply_turn(board, Revealed(heap, state), turn.team, chosen.clue,
                           chosen.number, turn.guesses, enforce_max_allowed_default)
       IN  /\ heap' = [heap EXCEPT ![state.revealed] = r.revealed]
           /\ outcome' = r.outcome
           /\ call' = [team |-> turn.team, number |-> chosen.number,
                       guesses |-> turn.guesses,
                       enforce_max_allowed |-> enforce_max_allowed_default,
                       before |-> Revealed(heap, state)]
           /\ turn' = [turn EXCEPT !.log =
                  [team |-> turn.team,
                   generated_candidates |-> Len(turn.candidates_raw),
                   legal_candidates |-> Len(turn.final_legal),
                   rejected_candidates |-> turn.rejected_all,
                   chosen |-> [clue |-> chosen.clue, number |-> chosen.number,
                               mean_utility |-> turn.best.mean_utility,
                               std_utility |-> turn.best.std_utility,
                               selection_score |-> turn.best.selection_score],
                   actual_guesses |-> turn.guesses,
                   actual_outcome |-> r.outcome]]
    /\ pc' = "TURN_DONE"
    /\ UNCHANGED <<board, state, cfgs, game>>

-----------------------------------------------------------------------------
(* runner.py: play_game *)

\* lines 25-33: the locals of play_game before its loop; turns counts the
\* turn logs appended
new_game == [turn_idx |-> 0, winner |-> None, loser |-> None,
             end_reason |-> "unknown", turns |-> 0]

\* line 37: agent = red_agent if team == "RED" else blue_agent
agent_for(agents, team) == IF team = "RED" THEN agents.RED ELSE agents.BLUE

\* variant: every finished game is labelled completed_agents
game_ended_unlabelled(g, o) ==
    [g EXCEPT !.winner = o.winner, !.loser = o.loser,
              !.end_reason = "completed_agents"]

\* lines 44-51: what play_game records of an outcome that ends the game
game_ended(g, o) ==
    [g EXCEPT !.winner = o.winner,
              !.loser = o.loser,
              !.end_reason = IF o.stopped_reason = "assassin" THEN "assassin"
                             ELSE "completed_agents"]

\* lines 56-57: the label of a game nobody has won
game_returned(g) ==
    [g EXCEPT !.end_reason = IF g.winner = None THEN "max_turns" ELSE @]

\* variant: the loop goes on whatever the outcome
leaves_loop_never(o) == FALSE

\* line 44: the outcome makes play_game leave its loop
leaves_loop(o) == o.game_over

InitGame ==
    /\ board \in Boards
    /\ heap = <<init_game_state(board, 1).bitmap>>
    /\ state = init_game_state(board, 1).state
    /\ cfgs \in Matches
    /\ game = new_game
    /\ turn = None
    /\ call = NoCall
    /\ outcome = NoOutcome
    /\ pc = "LOOP"

\* lines 35-39: the head of the loop enters take_turn for state.current_team;
\* lines 56-67: after max_turns turns the game ends with end_reason max_turns
LoopHead ==
    /\ pc = "LOOP"
    /\ IF game.turn_idx < MaxTurns
       THEN /\ turn' = new_turn(agent_for(cfgs, state.current_team),
                                state.current_team, Revealed(heap, state))
            /\ pc' = "GEN"
            /\ call' = NoCall
            /\ outcome' = NoOutcome
            /\ game' = game
       ELSE /\ game' = game_returned(game)
            /\ pc' = "done"
            /\ UNCHANGED <<turn, call, outcome>>
    /\ UNCHANGED <<board, heap, state, cfgs>>

\* lines 41-54: the turn log is appended; a finished game leaves the loop,
\* otherwise the other team is to play
AfterTurn ==
    /\ pc = "TURN_DONE"
    /\ LET o == turn.log.actual_outcome
       IN  IF leaves_loop(o)
           THEN /\ game' = game_returned(
                           game_ended([game EXCEPT !.turns = game.turns + 1], o))
                /\ state' = state
                /\ pc' = "done"
           ELSE /\ game' = [game EXCEPT !.turns = game.turns + 1,
                                        !.turn_idx = game.turn_idx + 1]
                /\ state' = [state EXCEPT !.current_team = other_team(turn.team)]
                /\ pc' = "LOOP"
    /\ UNCHANGED <<board, heap, cfgs, turn, call, outcome>>

NextGame ==
    \/ LoopHead
    \/ Gen
    \/ Legal
    \/ Fallback
    \/ EvalRollout
    \/ Pick
    \/ Play
    \/ Apply
    \/ AfterTurn

SpecGame == InitGame /\ [][NextGame]_vars

\* play_game has returned, or an exception has left it
Halted == pc \in {"done", "raised"}

\* play_game is one sequential program: while it has a step to take, it
\* takes one.  This is weak fairness of NextGame, WF_vars(NextGame), written
\* out with ~Halted for ENABLED <<NextGame>>_vars: every stage but the two
\* halted ones has a step.
SpecGameFair == SpecGame /\ ([]<>Halted \/ []<><<NextGame>>_vars)

-----------------------------------------------------------------------------
(* PICK on its own: take_turn at line 135 with a list of evaluations.  Each  *)
(* evaluation is computed by evaluation_of from the utilities of G = 2       *)
(* rollouts; the utilities 0, 1.0 and -1.0 are exact as floats, and so are    *)
(* their means and deviations.                                               *)

\* the most candidates evaluated
MaxCandidates == 3

\* utilities of a rollout, in tenths: nothing revealed, one own card, one card
\* of the opponent
RolloutUtilities == {-10, 0, 10}

Aggregates == {"mean", "mean_minus_lambda_std", "p10"}

\* the agent with another aggregate
agent_with(aggregate) == [KCallsAgent EXCEPT !.selection.aggregate = aggregate]

\* the evaluation of the i-th candidate from the utilities u of its rollouts
evaluation_from(i, u, agent) ==
    evaluation_of([clue |-> MYSTERY, number |-> i, raw |-> [fallback |-> TRUE]],
                  [k \in 1..Len(u) |-> [utility |-> u[k]]],
                  agent.selection.aggregate, agent.selection.lambda_std)

InitPick ==
    /\ board \in Boards
    /\ heap = <<init_game_state(board, 1).bitmap>>
    /\ state = init_game_state(board, 1).state
    /\ \E aggregate \in Aggregates :
          cfgs = [RED |-> agent_with(aggregate), BLUE |-> agent_with(aggregate)]
    /\ game = new_game
    /\ \E n \in 1..MaxCandidates :
          \E us \in [1..n -> [1..2 -> RolloutUtilities]] :
             turn = [new_turn(agent_for(cfgs, state.current_team), state.current_team,
                              Revealed(heap, state))
                        EXCEPT !.evals = [i \in 1..n |-> evaluation_from(i, us[i], cfgs.RED)],
                               !.ci = n + 1]
    /\ call = NoCall
    /\ outcome = NoOutcome
    /\ pc = "PICK"

NextPick == Pick

SpecPick == InitPick /\ [][NextPick]_vars

-----------------------------------------------------------------------------
(* LEGAL on its own: take_turn at line 78 with the candidates GEN returned   *)
(* and a configured max_eval_candidates.  load_agent_config (types.py, line  *)
(* 102) takes the value from the JSON file as it is.                         *)

\* the most candidates GEN returns
MaxGenerated == 3

\* a board on which a team holds more than nine cards, as the starting team
\* of generate_board does with its nine at the limit of the number range
WideBoards == {
    [board_id |-> "board-000001",
     words |-> << <<"B","E">>, <<"B","O">>, <<"B","Y">>, <<"D","O">>, <<"G","O">>,
                  <<"H","E">>, <<"H","O">>, <<"M","E">>, <<"M","Y">>, <<"N","O">>,
                  <<"O","X">>, <<"W","E">> >>,
     key |-> <<"RED", "RED", "RED", "RED", "RED", "RED", "RED", "RED", "RED", "RED",
               "BLUE", "ASSASSIN">>,
     starting_team |-> "RED"]
}

\* candidates GEN returns: the clues of the spymaster model with numbers in
\* and out of the range, a number that is no integer and no number at all
GeneratedCandidates ==
    { [clue |-> <<" ", "z", "a", "p">>, number |-> IntV(1)],
      [clue |-> <<"Z", "i", "p">>, number |-> IntV(2)],
      [clue |-> <<"C", "A", "T">>, number |-> IntV(1)],
      [clue |-> <<"z", "a", "p">>, number |-> NaNStr],
      [clue |-> <<"z", "a", "p">>, number |-> IntV(0)],
      [clue |-> <<"z", "a", "p">>, number |-> IntV(9)],
      [clue |-> <<"z", "a", "p">>, number |-> IntV(10)],
      [clue |-> <<"z", "e", "d">>] }

\* values of selection.max_eval_candidates in a configuration file
MaxEvalValues == {Null, IntV(-1), IntV(0), IntV(1), IntV(2), IntV(3)}

\* the agent with another max_eval_candidates
agent_evaluating(max_eval_candidates) ==
    [KCallsAgent EXCEPT !.spymaster.candidates_per_turn = MaxGenerated,
                        !.selection.max_eval_candidates = max_eval_candidates]

InitLegal ==
    /\ board \in Boards \cup WideBoards
    /\ heap = <<init_game_state(board, 1).bitmap>>
    /\ state = init_game_state(board, 1).state
    /\ \E m \in MaxEvalValues :
          cfgs = [RED |-> agent_evaluating(m), BLUE |-> agent_evaluating(m)]
    /\ game = new_game
    /\ \E n \in 0..MaxGenerated :
          \E cs \in [1..n -> GeneratedCandidates] :
             turn = [new_turn(agent_for(cfgs, state.current_team), state.current_team,
                              Revealed(heap, state))
                        EXCEPT !.candidates_raw = cs]
    /\ call = NoCall
    /\ outcome = NoOutcome
    /\ pc = "LEGAL"

NextLegal == Legal

SpecLegal == InitLegal /\ [][NextLegal]_vars

-----------------------------------------------------------------------------
(* openai_responses.py: OpenAIResponsesClient.create_json.  A call is        *)
(* followed through its cache lookup and the iterations of its retry loop.   *)
(* `cfgs` says whether the client was built with a cache, `heap` holds the   *)
(* rows of the cache table, `call` the arguments and local variables of the  *)
(* call, `game` what the call did so far (cache reads and writes, network    *)
(* requests, sleeps, salvage parses), `outcome` what it returned or raised,  *)
(* `state` counts the calls and `turn` remembers, for each payload, the      *)
(* first response a call that uses the cache returned.  Temperatures and     *)
(* top_p are in tenths, sleeps in seconds.                                   *)

MaxCalls == 2
MaxRetries == 3

\* the first and the last position of ch in text, 0 for Python's -1
find(text, ch) ==
    IF \E i \in 1..Len(text) : text[i] = ch
    THEN CHOOSE i \in 1..Len(text) : text[i] = ch /\ \A k \in 1..(i - 1) : text[k] # ch
    ELSE 0
rfind(text, ch) ==
    IF \E i \in 1..Len(text) : text[i] = ch
    THEN CHOOSE i \in 1..Len(text) : text[i] = ch /\ \A k \in (i + 1)..Len(text) : text[k] # ch
    ELSE 0

\* json.loads on the texts of the model: an object with one member, written
\* { a } or { b }; anything else raises
json_loads(text) ==
    IF Len(text) = 3 /\ text[1] = "{" /\ text[3] = "}" /\ text[2] \in {"a", "b"}
    THEN [ok |-> TRUE, v |-> Dict([member |-> text[2]])]
    ELSE [ok |-> FALSE, v |-> Null]

\* _salvage_json (lines 223-232): from the first { to the last }
_salvage_json(text) ==
    LET start == find(text, "{")
        end == rfind(text, "}")
    IN  IF start # 0 /\ end # 0 /\ end > start
        THEN json_loads(SubSeq(text, start, end))
        ELSE [ok |-> FALSE, v |-> Null]

\* extract_output_text (lines 202-220): the content parts of one message
RECURSIVE text_of_parts(_)
text_of_parts(content) ==
    IF content = <<>> THEN [found |-> FALSE, ok |-> FALSE, text |-> <<>>, error |-> None]
    ELSE LET c == Head(content)
         IN  IF c.type = "output_text"
             THEN [found |-> TRUE, ok |-> TRUE, text |-> Get(c, "text", <<>>), error |-> None]
             ELSE IF c.type = "refusal"
             THEN [found |-> TRUE, ok |-> FALSE, text |-> <<>>, error |-> "Model refusal"]
             ELSE text_of_parts(Tail(content))

RECURSIVE text_of_items(_)
text_of_items(output) ==
    IF output = <<>> THEN [found |-> FALSE, ok |-> FALSE, text |-> <<>>, error |-> None]
    ELSE LET item == Head(output)
             inner == IF item.type = "message" /\ Get(item, "role", None) = "assistant"
                      THEN text_of_parts(Get(item, "content", <<>>))
                      ELSE [found |-> FALSE, ok |-> FALSE, text |-> <<>>, error |-> None]
         IN  IF inner.found THEN inner ELSE text_of_items(Tail(output))

extract_output_text(resp_json) ==
    LET first == text_of_items(Get(resp_json, "output", <<>>))
    IN  IF first.found THEN [ok |-> first.ok, text |-> first.text, error |-> first.error]
        ELSE IF "output_text" \in DOMAIN resp_json
        THEN [ok |-> TRUE, text |-> resp_json.output_text, error |-> None]
        ELSE [ok |-> FALSE, text |-> <<>>, error |-> "No output_text found"]

\* _parse_response (lines 182-199): the LLMResponse, or the exception;
\* salvaged says whether _salvage_json was called
_parse_response(data) ==
    LET t == extract_output_text(data)
        j == json_loads(t.text)
        sv == _salvage_json(t.text)
    IN  IF ~t.ok THEN [ok |-> FALSE, error |-> t.error, salvaged |-> 0, response |-> NoResponse]
        ELSE IF j.ok
        THEN [ok |-> TRUE, error |-> None, salvaged |-> 0,
              response |-> [parsed |-> j.v, raw |-> data, output_text |-> t.text]]
        ELSE IF sv.ok
        THEN [ok |-> TRUE, error |-> None, salvaged |-> 1,
              response |-> [parsed |-> sv.v, raw |-> data, output_text |-> t.text]]
        ELSE [ok |-> FALSE, error |-> "JSONDecodeError", salvaged |-> 1, response |-> NoResponse]

\* response bodies of the API
Message(content) == [type |-> "message", role |-> "assistant", content |-> content]
TextPart(text) == [type |-> "output_text", text |-> text]
Answer(text) == [id |-> "resp", output |-> <<[type |-> "reasoning"], Message(<<TextPart(text)>>)>>]

AnswerA == Answer(<<"{", "a", "}">>)
AnswerB == [id |-> "resp", output |-> <<>>, output_text |-> <<"{", "b", "}">>]
AnswerWrapped == Answer(<<"x", "{", "a", "}", "x">>)
AnswerNotJson == Answer(<<"x", "}", "{">>)
Refusal == [id |-> "resp", output |-> <<Message(<<[type |-> "refusal", refusal |-> "no"]>>)>>]
NoAssistantOutput == [id |-> "resp", output |-> <<[type |-> "reasoning"]>>]

Bodies == {AnswerA, AnswerB, AnswerWrapped, AnswerNotJson, Refusal, NoAssistantOutput}

\* what requests.post does: it raises, or returns a response with a status
\* code and, with 200, a body
NetworkOutcomes ==
    {[status |-> st, body |-> Null] : st \in {"transport", "429", "503", "400"}}
        \cup {[status |-> "200", body |-> b] : b \in Bodies}

\* payloads (lines 122-140): the members the cache gate looks at, and the input
Payloads ==
    { [model |-> "m", input |-> "q", temperature |-> 0, top_p |-> 10],
      [model |-> "m", input |-> "q", temperature |-> 7, top_p |-> 10],
      [model |-> "m", input |-> "q", temperature |-> 0, top_p |-> 9] }

\* _cache_key (lines 91-94): the members of the payload in the order of
\* their names; SHA-256 is taken to be free of collisions
_cache_key(payload) ==
    <<"input", payload.input, "model", payload.model,
      "temperature", payload.temperature, "top_p", payload.top_p>>

NoKey == <<>>

\* variant: the lookup never finds a row
SQLiteCache_get_miss(rows, key) == Null

\* SQLiteCache.get (lines 47-56): the value of the row with the key, or None
SQLiteCache_get(rows, key) ==
    IF \E r \in rows : r.key = key
    THEN (CHOOSE r \in rows : r.key = key).value
    ELSE Null

\* SQLiteCache.set (lines 58-67): INSERT OR REPLACE
SQLiteCache_set(rows, key, value) ==
    {r \in rows : r.key # key} \cup {[key |-> key, value |-> value]}

\* variant: the gate on deterministic parameters is not applied
use_cache_ungated(has_cache, cache_deterministic_only, temperature, top_p) ==
    has_cache

\* lines 142-145
use_cache_of(has_cache, cache_deterministic_only, temperature, top_p) ==
    has_cache /\ (~cache_deterministic_only \/ (temperature = 0 /\ top_p = 10))

\* variant: the backoff is not doubled
next_backoff_same(backoff) == backoff

\* lines 166 and 178: backoff *= 2
next_backoff(backoff) == backoff * 2

\* what a call did
Event(ev, status, seconds) == [ev |-> ev, status |-> status, seconds |-> seconds]
CacheGet == Event("get", "", 0)
CacheSet == Event("set", "", 0)
Request(status) == Event("request", status, 0)
Sleep(seconds) == Event("sleep", "", seconds)
Salvage == Event("salvage", "", 0)

Salvages(n) == IF n = 1 THEN <<Salvage>> ELSE <<>>

ReturnsResponse(response) == [kind |-> "return", response |-> response]
RaisesError(error) == [kind |-> "raise", error |-> error]

\* the first response remembered for the payload of a call that uses the cache
remember(first, c, response) ==
    IF c.use_cache /\ first[c.payload] = NoResponse
    THEN [first EXCEPT ![c.payload] = response]
    ELSE first

InitClient ==
    /\ board = None
    /\ cfgs \in {[cache |-> TRUE], [cache |-> FALSE]}
    /\ heap = {}
    /\ state = [calls |-> 0]
    /\ turn = [p \in Payloads |-> NoResponse]
    /\ game = <<>>
    /\ call = NoCall
    /\ outcome = NoOutcome
    /\ pc = "idle"

\* create_json up to the retry loop (lines 119-154): the cache lookup
CreateJson ==
    /\ pc \in {"idle", "returned", "raised"}
    /\ state.calls < MaxCalls
    /\ \E payload \in Payloads, retries \in 0..MaxRetries, cache_deterministic_only \in BOOLEAN :
          LET use_cache == use_cache_of(cfgs.cache, cache_deterministic_only,
                                        payload.temperature, payload.top_p)
              cache_key == IF use_cache THEN _cache_key(payload) ELSE NoKey
              cached == IF use_cache THEN SQLiteCache_get(heap, cache_key) ELSE Null
              c == [payload |-> payload, retries |-> retries,
                    cache_deterministic_only |-> cache_deterministic_only,
                    use_cache |-> use_cache, cache_key |-> cache_key,
                    backoff |-> 1, attempt |-> 0, last_err |-> None,
                    rows_at_entry |-> heap]
              log == IF use_cache THEN <<CacheGet>> ELSE <<>>
              r == _parse_response(cached)
          IN  /\ call' = c
              /\ IF cached # Null
                 THEN /\ game' = log \o Salvages(r.salvaged)
                      /\ pc' = IF r.ok THEN "returned" ELSE "raised"
                      /\ outcome' = IF r.ok THEN ReturnsResponse(r.response) ELSE RaisesError(r.error)
                      /\ turn' = IF r.ok THEN remember(turn, c, r.response) ELSE turn
                 ELSE /\ game' = log
                      /\ pc' = "loop"
                      /\ outcome' = NoOutcome
                      /\ turn' = turn
    /\ state' = [state EXCEPT !.calls = @ + 1]
    /\ UNCHANGED <<board, heap, cfgs>>

\* lines 175-178: the handler of the loop body
caught(c, error) ==
    [c EXCEPT !.last_err = error, !.backoff = next_backoff(c.backoff),
              !.attempt = c.attempt + 1]

\* one iteration of the retry loop (lines 155-178)
Attempt ==
    /\ pc = "loop"
    /\ call.attempt < call.retries
    /\ \E net \in NetworkOutcomes :
          LET r == _parse_response(net.body)
              sent == Append(game, Request(net.status))
              stored == IF call.use_cache THEN <<CacheSet>> ELSE <<>>
          IN  IF net.status = "transport"
              THEN /\ call' = caught(call, "ConnectionError")
                   /\ game' = Append(sent, Sleep(call.backoff))
                   /\ UNCHANGED <<heap, pc, outcome, turn>>
              ELSE IF net.status \in {"429", "503"}
              THEN /\ call' = [call EXCEPT !.backoff = next_backoff(call.backoff),
                                           !.attempt = call.attempt + 1]
                   /\ game' = Append(sent, Sleep(call.backoff))
                   /\ UNCHANGED <<heap, pc, outcome, turn>>
              ELSE IF net.status # "200"
              THEN /\ call' = caught(call, "HTTPError")
                   /\ game' = Append(sent, Sleep(call.backoff))
                   /\ UNCHANGED <<heap, pc, outcome, turn>>
              ELSE /\ heap' = IF call.use_cache
                              THEN SQLiteCache_set(heap, call.cache_key, net.body)
                              ELSE heap
                   /\ IF r.ok
                      THEN /\ game' = sent \o stored \o Salvages(r.salvaged)
                           /\ pc' = "returned"
                           /\ outcome' = ReturnsResponse(r.response)
                           /\ turn' = remember(turn, call, r.response)
                           /\ call' = call
                      ELSE /\ call' = caught(call, r.error)
                           /\ game' = Append(sent \o stored \o Salvages(r.salvaged),
                                             Sleep(call.backoff))
                           /\ UNCHANGED <<pc, outcome, turn>>
    /\ UNCHANGED <<board, state, cfgs>>

\* line 180: the loop has ended
Exhausted ==
    /\ pc = "loop"
    /\ call.attempt >= call.retries
    /\ pc' = "raised"
    /\ outcome' = RaisesError("OpenAI request failed")
    /\ UNCHANGED <<board, heap, state, call, cfgs, turn, game>>

NextClient == CreateJson \/ Attempt \/ Exhausted

SpecClient == InitClient /\ [][NextClient]_vars

-----------------------------------------------------------------------------
(* legality.py: is_legal_clue on its own, called once with a clue and the   *)
(* words of a board.  `call` holds the arguments, `outcome` the reason       *)
(* returned (Ok for a legal clue).                                           *)

MaxShortClue == 3

ClueChars == {"C", "A", "s", " ", "'"}

\* every string of up to MaxShortClue characters
ShortClues == UNION {[1..n -> ClueChars] : n \in 0..MaxShortClue}

NamedClues ==
    { <<"C", "A", "T", "S">>, <<"C", "A", "T", "N", "I", "P">>, <<"c", "a", "t">>,
      <<"C", "A">>, <<"S", "C", "A", "T">>, <<"n", "o", "n", "e">>,
      <<"S", "t", "o", "p">>, <<"Z", "A", "P">>, <<"Z", "-", "A", "P">>,
      <<"Z", "A", "P", "2">> }

ClueInputs == ShortClues \cup NamedClues

\* board words, as load_wordlist keeps them: upper case, no blank inside
WordList ==
    { <<"C", "A", "T">>, <<"C", "A", "T", "S">>, <<"C", "A">>, <<"A", "S">>,
      <<"C", "-", "A", "S">> }

MaxBoardWords == 2

BoardWordLists == UNION {[1..n -> WordList] : n \in 1..MaxBoardWords}

InitClue ==
    /\ board = None
    /\ heap = <<>>
    /\ state = NoState
    /\ cfgs = None
    /\ turn = None
    /\ game = None
    /\ \E clue \in ClueInputs, board_words \in BoardWordLists :
          call = [clue |-> clue, board_words |-> board_words]
    /\ outcome = NoOutcome
    /\ pc = "call"

IsLegalClue ==
    /\ pc = "call"
    /\ outcome' = is_legal_clue(call.clue, call.board_words)
    /\ pc' = "returned"
    /\ UNCHANGED <<board, heap, state, call, cfgs, turn, game>>

NextClue == IsLegalClue

SpecClue == InitClue /\ [][NextClue]_vars

-----------------------------------------------------------------------------
(* agent.py: the statistics at the end of _evaluate_candidate on their own,  *)
(* for the utilities of the rollouts of one candidate.  `call` holds the     *)
(* utilities, `cfgs` the selection settings, `outcome` the evaluation.       *)

MaxRollouts == 4

\* utilities of a rollout, in tenths: nothing revealed, a correct guess, a
\* neutral card, an opponent's card
Utilities == {0, 10, -3, -10}

\* every list of 1..MaxRollouts utilities
ShortSamples == UNION {[1..n -> Utilities] : n \in 1..MaxRollouts}

\* lists of 11 and of 21 utilities, for which the index of p10 is 1 and 2
LongSamples ==
    {[i \in 1..11 |-> IF i = j THEN -10 ELSE IF i = k THEN 0 ELSE 10] : j, k \in 1..11}
        \cup {[i \in 1..21 |-> IF i = j THEN -10 ELSE IF i = k THEN 0 ELSE 10] :
                 j, k \in {1, 11, 21}}

LambdaStds == {0, 7}

InitScore ==
    /\ board = None
    /\ heap = <<>>
    /\ state = NoState
    /\ \E aggregate \in Aggregates, lambda_std \in LambdaStds :
          cfgs = [selection |-> [aggregate |-> aggregate, lambda_std |-> lambda_std]]
    /\ turn = None
    /\ game = None
    /\ \E u \in ShortSamples \cup LongSamples : call = [utilities |-> u]
    /\ outcome = NoOutcome
    /\ pc = "call"

\* lines 338-353
EvaluateCandidate ==
    /\ pc = "call"
    /\ outcome' = evaluation_of([clue |-> MYSTERY, number |-> 1, raw |-> [fallback |-> TRUE]],
                                [k \in 1..Len(call.utilities) |->
                                    [utility |-> call.utilities[k]]],
                                cfgs.selection.aggregate, cfgs.selection.lambda_std)
    /\ pc' = "returned"
    /\ UNCHANGED <<board, heap, state, call, cfgs, turn, game>>

NextScore == EvaluateCandidate

SpecScore == InitScore /\ [][NextScore]_vars

-----------------------------------------------------------------------------
(* python/src/game: state.py, generator.py, and boards.py of the benchmark:  *)
(* the two board generators.  A word is the position it has in the word      *)
(* list, whose entries differ (load_wordlist removes duplicates).  The       *)
(* random choices are drawn from families of samples and of shuffles.        *)

STARTING_TEAM_WORDS == 9
OTHER_TEAM_WORDS == 8
NEUTRAL_WORDS == 7
ASSASSIN_WORDS == 1
TOTAL_CARDS == 25

\* the length of the word list
WordListLen == 27

\* Team.opponent
opponent(team) == IF team = "RED" THEN "BLUE" ELSE "RED"

\* CardType.for_team
for_team(team) == IF team = "RED" THEN "RED" ELSE "BLUE"

\* [x] * n
Repeat(x, n) == [i \in 1..n |-> x]

\* random.sample(word_list, k): k words at different positions of the list
Samples(k) ==
    {[i \in 1..k |-> ((a * i + b) % WordListLen) + 1] : a \in {1, 5}, b \in {0, 5, 26}}

\* random.shuffle of a list of n items: the item that comes to each place
Shuffles(n) ==
    {[i \in 1..n |-> ((c * i + d) % n) + 1] : c \in {1, 2, 3}, d \in {0, 7, 23}}

Shuffled(list, perm) == [i \in 1..Len(list) |-> list[perm[i]]]

\* variant: the team that starts is dealt the smaller share
_generate_key_swapped(starting_team) ==
    Repeat(for_team(starting_team), OTHER_TEAM_WORDS)
        \o Repeat(for_team(opponent(starting_team)), STARTING_TEAM_WORDS)
        \o Repeat("NEUTRAL", NEUTRAL_WORDS)
        \o Repeat("ASSASSIN", ASSASSIN_WORDS)

\* BoardGenerator._generate_key (generator.py, lines 92-118)
_generate_key(starting_team) ==
    Repeat(for_team(starting_team), STARTING_TEAM_WORDS)
        \o Repeat(for_team(opponent(starting_team)), OTHER_TEAM_WORDS)
        \o Repeat("NEUTRAL", NEUTRAL_WORDS)
        \o Repeat("ASSASSIN", ASSASSIN_WORDS)

NoClue == [word |-> <<>>, number |-> 0, team |-> None]

\* the GameState of state.py
GameState(words, key, revealed, current_team, red_remaining, blue_remaining) ==
    [words |-> words, key |-> key, revealed |-> revealed,
     current_team |-> current_team, current_clue |-> NoClue, guesses_remaining |-> 0,
     red_remaining |-> red_remaining, blue_remaining |-> blue_remaining,
     game_over |-> FALSE, winner |-> None,
     clue_history |-> <<>>, guess_history |-> <<>>]

\* BoardGenerator.generate_board (generator.py, lines 51-90)
BoardGenerator_generate_board(starting_team, sample, perm) ==
    LET key == _generate_key(starting_team)
    IN  GameState(Shuffled(sample, perm), Shuffled(key, perm),
                  Repeat(FALSE, TOTAL_CARDS), starting_team,
                  IF starting_team = "RED" THEN STARTING_TEAM_WORDS ELSE OTHER_TEAM_WORDS,
                  IF starting_team = "BLUE" THEN STARTING_TEAM_WORDS ELSE OTHER_TEAM_WORDS)

\* generate_board (boards.py, lines 39-61): the key alone is shuffled
generate_board(starting_team, sample, perm, board_id) ==
    LET key == Repeat(starting_team, 9) \o Repeat(other_team(starting_team), 8)
               \o Repeat("NEUTRAL", 7) \o Repeat("ASSASSIN", 1)
    IN  [board_id |-> board_id, words |-> sample, key |-> Shuffled(key, perm),
         starting_team |-> starting_team]

InitBoard ==
    /\ board = None
    /\ heap = <<>>
    /\ state = NoState
    /\ cfgs = None
    /\ turn = None
    /\ game = None
    /\ call = NoCall
    /\ outcome = NoOutcome
    /\ pc = "start"

\* python/src: a board is generated
GeneratePyBoard ==
    /\ pc = "start"
    /\ \E starting_team \in Teams, sample \in Samples(TOTAL_CARDS),
          perm \in Shuffles(TOTAL_CARDS) :
          state' = BoardGenerator_generate_board(starting_team, sample, perm)
    /\ pc' = "py_board"
    /\ UNCHANGED <<board, heap, call, outcome, cfgs, turn, game>>

\* the benchmark: a board is generated (write_boards_jsonl) and a game is
\* set up on it (init_game_state)
GenerateBoard ==
    /\ pc = "start"
    /\ \E starting_team \in Teams, sample \in Samples(25), perm \in Shuffles(25) :
          LET b == generate_board(starting_team, sample, perm, "board-000000")
              s == init_game_state(b, 1)
          IN  /\ board' = b
              /\ heap' = <<s.bitmap>>
              /\ state' = s.state
    /\ pc' = "board"
    /\ UNCHANGED <<call, outcome, cfgs, turn, game>>

NextBoard == GeneratePyBoard \/ GenerateBoard

SpecBoard == InitBoard /\ [][NextBoard]_vars

-----------------------------------------------------------------------------
(* python/src/game/rules.py: GameRules.  The variable state holds the game's *)
(* GameState, call the last call (its arguments and the state it was given)  *)
(* and outcome what the call returned or that it raised.  A caller replaces  *)
(* its state by the returned one; a call that raises leaves it alone.        *)

\* how many clues a game of the model may see
MaxClues == 2

\* how many words a list given to simulate_guesses may hold
MaxList == 2

Clue(word, number, team) == [word |-> word, number |-> number, team |-> team]

NoResult == [word |-> <<>>, card_type |-> None]

ValueError(s) == [raised |-> TRUE, state |-> s, result |-> NoResult]

Result(s, result) == [raised |-> FALSE, state |-> s, result |-> result]

\* variant: a board word is found only in the case it is written in
word_index_exact(words, word) ==
    LET found == {i \in 1..Len(words) : words[i] = word}
    IN  IF found = {} THEN 0 ELSE CHOOSE i \in found : \A k \in found : i <= k

\* the loops of rules.py, lines 53-56 and 84-89: the first place of the word
\* on the board, whatever its case, or 0
word_index(words, word) ==
    LET found == {i \in 1..Len(words) : upper(words[i]) = upper(word)}
    IN  IF found = {} THEN 0 ELSE CHOOSE i \in found : \A k \in found : i <= k

\* GameRules.give_clue (rules.py, lines 33-62)
give_clue(s, clue) ==
    IF s.game_over THEN ValueError(s)
    ELSE IF s.current_clue # NoClue THEN ValueError(s)
    ELSE IF clue.team # s.current_team THEN ValueError(s)
    ELSE IF word_index(s.words, clue.word) # 0 THEN ValueError(s)
    ELSE Result([s EXCEPT !.current_clue = clue,
                           !.guesses_remaining = clue.number + 1,
                           !.clue_history = Append(@, clue)], NoResult)

\* variant: the turn passes but the clue stays
end_turn_keeps_clue(s) ==
    IF s.game_over THEN s
    ELSE [s EXCEPT !.current_team = opponent(s.current_team),
                   !.guesses_remaining = 0]

\* GameRules.end_turn (rules.py, lines 160-178)
end_turn(s) ==
    IF s.game_over THEN s
    ELSE [s EXCEPT !.current_team = opponent(s.current_team),
                   !.current_clue = NoClue,
                   !.guesses_remaining = 0]

\* GameRules.pass_turn (rules.py, lines 180-193)
pass_turn(s) ==
    IF s.game_over THEN ValueError(s) ELSE Result(end_turn(s), NoResult)

\* variant: a card of a team is counted only when that team guessed it
count_reveal_own(s, i) ==
    LET card_type == s.key[i]
    IN  [s EXCEPT !.revealed[i] = TRUE,
                  !.red_remaining =
                      IF card_type = "RED" /\ s.current_team = "RED" THEN @ - 1 ELSE @,
                  !.blue_remaining =
                      IF card_type = "BLUE" /\ s.current_team = "BLUE" THEN @ - 1 ELSE @]

\* rules.py, lines 97-106: the card is revealed and counted
count_reveal(s, i) ==
    LET card_type == s.key[i]
    IN  [s EXCEPT !.revealed[i] = TRUE,
                  !.red_remaining = IF card_type = "RED" THEN @ - 1 ELSE @,
                  !.blue_remaining = IF card_type = "BLUE" THEN @ - 1 ELSE @]

Verdict(game_over, winner, turn_ended, used) ==
    [game_over |-> game_over, winner |-> winner, turn_ended |-> turn_ended, used |-> used]

\* variant: the team that guessed the last card of a colour wins
end_conditions_guesser(s, new_state, card_type) ==
    IF card_type = "ASSASSIN" THEN Verdict(TRUE, opponent(s.current_team), TRUE, 0)
    ELSE IF new_state.red_remaining = 0 THEN Verdict(TRUE, s.current_team, TRUE, 0)
    ELSE IF new_state.blue_remaining = 0 THEN Verdict(TRUE, s.current_team, TRUE, 0)
    ELSE IF card_type # for_team(s.current_team) THEN Verdict(FALSE, None, TRUE, 0)
    ELSE Verdict(FALSE, None, new_state.guesses_remaining - 1 <= 0, 1)

\* rules.py, lines 115-142: the end of the game, the end of the turn, and
\* whether the guess uses up one of the allowed guesses
end_conditions(s, new_state, card_type) ==
    IF card_type = "ASSASSIN" THEN Verdict(TRUE, opponent(s.current_team), TRUE, 0)
    ELSE IF new_state.red_remaining = 0 THEN Verdict(TRUE, "RED", TRUE, 0)
    ELSE IF new_state.blue_remaining = 0 THEN Verdict(TRUE, "BLUE", TRUE, 0)
    ELSE IF card_type # for_team(s.current_team) THEN Verdict(FALSE, None, TRUE, 0)
    ELSE Verdict(FALSE, None, new_state.guesses_remaining - 1 <= 0, 1)

GuessResult(word, card_type, correct, turn_ended, game_over, winner) ==
    [word |-> word, card_type |-> card_type, correct |-> correct,
     turn_ended |-> turn_ended, game_over |-> game_over, winner |-> winner]

\* GameRules.make_guess (rules.py, lines 64-158)
make_guess(s, word) ==
    LET word_index_ == word_index(s.words, word)
    IN  IF s.game_over THEN ValueError(s)
        ELSE IF s.current_clue = NoClue THEN ValueError(s)
        ELSE IF s.guesses_remaining <= 0 THEN ValueError(s)
        ELSE IF word_index_ = 0 THEN ValueError(s)
        ELSE IF s.revealed[word_index_] THEN ValueError(s)
        ELSE
            LET card_type == s.key[word_index_]
                counted == [count_reveal(s, word_index_) EXCEPT
                               !.guess_history = Append(@, <<word, card_type>>)]
                v == end_conditions(s, counted, card_type)
                used == [counted EXCEPT !.guesses_remaining = @ - v.used]
                over == IF v.game_over
                        THEN [used EXCEPT !.game_over = TRUE, !.winner = v.winner]
                        ELSE used
                new_state == IF v.turn_ended /\ ~v.game_over THEN end_turn(over) ELSE over
            IN  Result(new_state,
                        GuessResult(word, card_type, card_type = for_team(s.current_team),
                                    v.turn_ended, v.game_over, v.winner))

\* rules.py, lines 223-240: the locals of simulate_guesses after a guess g
\* that make_guess accepted, and whether the loop breaks
guess_taken(acc, g) ==
    [acc |-> [state |-> g.state,
              guesses |-> Append(acc.guesses, g.result),
              team_words_found |->
                  acc.team_words_found + (IF g.result.correct THEN 1 ELSE 0),
              turn_ended_by |->
                  IF g.result.game_over
                  THEN (IF g.result.card_type = "ASSASSIN" THEN "assassin" ELSE "win")
                  ELSE IF g.result.turn_ended
                  THEN (IF g.result.card_type = "NEUTRAL" THEN "neutral" ELSE "opponent")
                  ELSE acc.turn_ended_by],
     break |-> g.result.game_over \/ g.result.turn_ended]

\* rules.py, lines 221-244: a guess that raises is skipped
guess_tried(acc, g) ==
    IF g.raised THEN [acc |-> acc, break |-> FALSE] ELSE guess_taken(acc, g)

RECURSIVE simulate_loop(_, _, _)
simulate_after(step, guesses, k) ==
    IF step.break THEN step.acc ELSE simulate_loop(step.acc, guesses, k + 1)

\* the for loop of simulate_guesses (rules.py, lines 217-244), from the k-th
\* guess on
simulate_loop(acc, guesses, k) ==
    IF k > Len(guesses) THEN acc
    ELSE IF acc.state.game_over \/ acc.state.guesses_remaining <= 0 THEN acc
    ELSE simulate_after(guess_tried(acc, make_guess(acc.state, guesses[k])), guesses, k)

\* rules.py, lines 251-257
TurnResult(acc, current_state) ==
    Result(current_state,
           [guesses |-> acc.guesses, turn_ended_by |-> acc.turn_ended_by,
            team_words_found |-> acc.team_words_found,
            game_over |-> current_state.game_over,
            winner |-> current_state.winner])

\* rules.py, lines 246-257: the turn is ended if it was not
simulate_end(acc) ==
    TurnResult(acc, IF ~acc.state.game_over /\ acc.state.current_clue # NoClue
                    THEN end_turn(acc.state)
                    ELSE acc.state)

\* GameRules.simulate_guesses (rules.py, lines 195-257)
simulate_guesses(s, guesses) ==
    simulate_end(simulate_loop([state |-> s, guesses |-> <<>>, team_words_found |-> 0,
                                turn_ended_by |-> "limit"], guesses, 1))

\* GameState.starting_team (state.py, lines 89-92)
starting_team(s) == IF s.red_remaining >= s.blue_remaining THEN "RED" ELSE "BLUE"

\* the deal of the generator on five cards: two for the team that starts, one
\* for the other, one neutral card and the assassin
SmallWords == <<<<"A">>, <<"B">>, <<"C">>, <<"D">>, <<"E">>>>

SmallKey(team) ==
    <<for_team(team), for_team(opponent(team)), "NEUTRAL", for_team(team), "ASSASSIN">>

NewGame(team) ==
    GameState(SmallWords, SmallKey(team), Repeat(FALSE, Len(SmallWords)), team,
              IF team = "RED" THEN 2 ELSE 1, IF team = "BLUE" THEN 2 ELSE 1)

\* the clues offered: a word that is not on the board, with a number of 0 or
\* 1, and a board word in lower case, by either team
ClueInputs_ ==
    {Clue(<<"z">>, n, t) : n \in {0, 1}, t \in Teams}
        \cup {Clue(<<"a">>, 1, t) : t \in Teams}

\* the words guessed: the board words and a word that is not on the board
GuessWords == {SmallWords[i] : i \in 1..Len(SmallWords)} \cup {<<"Q">>}

\* the words of the lists given to simulate_guesses: a card of either team,
\* the neutral card, the assassin, and a board word in lower case
ListWords == {<<"A">>, <<"B">>, <<"C">>, <<"E">>, <<"d">>}

GuessSequences == UNION {[1..n -> ListWords] : n \in 0..MaxList}

Called_(op, arg) == [op |-> op, arg |-> arg, before |-> state]

InitPyRules ==
    /\ board = None
    /\ heap = <<>>
    /\ cfgs = None
    /\ turn = None
    /\ game = None
    /\ state \in {NewGame(t) : t \in Teams}
    /\ call = [op |-> "generate_board"]
    /\ outcome = Result(state, NoResult)
    /\ pc = "play"

\* what a call leaves behind
Leaves(r) ==
    /\ outcome' = r
    /\ state' = r.state
    /\ UNCHANGED <<board, heap, pc, cfgs, turn, game>>

GiveClue ==
    \E clue \in ClueInputs_ :
        /\ Len(state.clue_history) < MaxClues
        /\ call' = Called_("give_clue", clue)
        /\ Leaves(give_clue(state, clue))

MakeGuess ==
    \E word \in GuessWords :
        /\ call' = Called_("make_guess", word)
        /\ Leaves(make_guess(state, word))

EndTurn ==
    /\ call' = Called_("end_turn", <<>>)
    /\ Leaves(Result(end_turn(state), NoResult))

PassTurn ==
    /\ call' = Called_("pass_turn", <<>>)
    /\ Leaves(pass_turn(state))

SimulateGuesses ==
    \E guesses \in GuessSequences :
        /\ call' = Called_("simulate_guesses", guesses)
        /\ Leaves(simulate_guesses(state, guesses))

NextPyRules == GiveClue \/ MakeGuess \/ EndTurn \/ PassTurn \/ SimulateGuesses

SpecPyRules == InitPyRules /\ [][NextPyRules]_vars

-----------------------------------------------------------------------------
(* python/src/evaluation: reward.py, simulator.py, aggregator.py and         *)
(* selector.py.  A candidate is a clue word and a number; the guesser's      *)
(* answer to a rollout is the list of words it orders, drawn from a few      *)
(* lists.  Scores are fractions [num, den]; the aggregations modelled are    *)
(* mean, min and max.                                                        *)

\* how many candidates a list given to the selector may hold
MaxSelected == 2

\* how many rollouts a candidate may be given
MaxSamples == 2

CandidateClue(clue, number) == [clue |-> clue, number |-> number]

\* CandidateClue.to_clue, as selector.py uses it at line 111
to_clue(c, team) == Clue(c.clue, c.number, team)

\* how many guesses of the turn revealed a card of the type
Guessed(turn_result, card_type) ==
    Cardinality({k \in 1..Len(turn_result.guesses) :
                    turn_result.guesses[k].card_type = card_type})

\* RewardCalculator.calculate_turn_reward (reward.py, lines 64-121), its
\* total_reward under the default RewardConfig
calculate_turn_reward(turn_result, team) ==
    Guessed(turn_result, for_team(team)) * 1
        + Guessed(turn_result, for_team(opponent(team))) * (-1)
        + Guessed(turn_result, "NEUTRAL") * 0
        + (IF Guessed(turn_result, "ASSASSIN") > 0 THEN -10 ELSE 0)
        + (IF turn_result.game_over /\ turn_result.winner = team THEN 5 ELSE 0)
        + (IF turn_result.game_over /\ turn_result.winner = opponent(team) THEN -10 ELSE 0)

\* simulator.py, lines 99-110: the reward and the RolloutResult
RolloutResult(s, clue, guesses_to_make, turn_result) ==
    [clue |-> clue,
     started |-> s,
     guesses_made |-> SubSeq(guesses_to_make, 1, Len(turn_result.guesses)),
     turn_result |-> turn_result,
     reward |-> calculate_turn_reward(turn_result, clue.team)]

\* simulator.py, lines 94-97: the guesses are simulated
rollout_of(s, clue, state_with_clue, guesses_to_make) ==
    RolloutResult(s, clue, guesses_to_make,
                  simulate_guesses(state_with_clue, guesses_to_make).result)

\* RolloutSimulator.simulate_turn (simulator.py, lines 59-110); words is the
\* answer of the guesser in its order, without a stop recommendation
simulate_turn(s, clue, words) ==
    rollout_of(s, clue, give_clue(s, clue).state,
               SubSeq(words, 1, Min(Len(words), clue.number + 1)))

\* the results of the tasks of evaluate_candidates in the order gather
\* returns them (simulator.py, lines 185-197); answers[k] is the guesser's
\* answer to the k-th task
gathered(s, candidates, rollouts_per_candidate, answers) ==
    [k \in 1..(Len(candidates) * rollouts_per_candidate) |->
        simulate_turn(s, candidates[((k - 1) \div rollouts_per_candidate) + 1], answers[k])]

\* the results that carry the clue word, in order
RECURSIVE with_word(_, _)
with_word(results, word) ==
    IF results = <<>> THEN <<>>
    ELSE IF Head(results).clue.word = word
         THEN <<Head(results)>> \o with_word(Tail(results), word)
         ELSE with_word(Tail(results), word)

\* BatchSimulator.evaluate_candidates (simulator.py, lines 162-207): the
\* dictionary from clue word to rollouts
evaluate_candidates(s, candidates, rollouts_per_candidate, answers) ==
    LET results == gathered(s, candidates, rollouts_per_candidate, answers)
    IN  [word \in {candidates[i].word : i \in 1..Len(candidates)} |->
            with_word(results, word)]

Fraction(num, den) == [num |-> num, den |-> den]

\* a < b for fractions with positive denominators
Less(a, b) == a.num * b.den < b.num * a.den

RECURSIVE total_of(_)
total_of(rollouts) ==
    IF rollouts = <<>> THEN 0 ELSE Head(rollouts).reward + total_of(Tail(rollouts))

Rewards(rollouts) == {rollouts[k].reward : k \in 1..Len(rollouts)}

\* Aggregator.aggregate of MeanAggregator, MinAggregator and MaxAggregator
\* (aggregator.py, lines 73-86 and 187-217)
aggregate(method, rollouts) ==
    [clue_word |-> rollouts[1].clue.word,
     score |-> IF method = "mean" THEN Fraction(total_of(rollouts), Len(rollouts))
               ELSE IF method = "min"
               THEN Fraction(CHOOSE r \in Rewards(rollouts) :
                                 \A q \in Rewards(rollouts) : r <= q, 1)
               ELSE Fraction(CHOOSE r \in Rewards(rollouts) :
                                 \A q \in Rewards(rollouts) : r >= q, 1),
     n_rollouts |-> Len(rollouts)]

\* max(all_scores, key=lambda s: s.score): the first of the largest
best_of(all_scores) ==
    LET best == {i \in 1..Len(all_scores) :
                    \A k \in 1..Len(all_scores) :
                        ~Less(all_scores[i].score, all_scores[k].score)}
    IN  all_scores[CHOOSE i \in best : \A k \in best : i <= k]

\* next(c for c in candidates if c.clue == word)
first_named(candidates, word) ==
    LET named == {i \in 1..Len(candidates) : candidates[i].clue = word}
    IN  CHOOSE i \in named : \A k \in named : i <= k

\* selector.py, lines 166-176: the best score, its candidate, the result
SelectionResult(candidates, candidate_results, all_scores, best_score, best) ==
    [selected |-> best,
     selected_clue |-> candidates[best],
     selected_score |-> best_score,
     all_scores |-> all_scores,
     all_rollouts |-> candidate_results]

selection_of(candidates, candidate_results, all_scores, best_score) ==
    SelectionResult(candidates, candidate_results, all_scores, best_score,
                    first_named(candidates, best_score.clue_word))

\* ClueSelector.select_clue_with_candidates (selector.py, lines 131-176),
\* after the rollouts: the scores and the choice
select_clue_with_candidates(method, candidates, candidate_results) ==
    LET all_scores == [i \in 1..Len(candidates) |->
                          aggregate(method, candidate_results[candidates[i].clue])]
    IN  selection_of(candidates, candidate_results, all_scores, best_of(all_scores))

\* the candidates offered: two clue words, numbers 0 and 1
Candidates == {CandidateClue(w, n) : w \in {<<"z">>, <<"y">>}, n \in {0, 1}}

CandidateLists == UNION {[1..n -> Candidates] : n \in 1..MaxSelected}

\* the answers of the guesser: both cards of the team, a card of the team
\* and the card of the other, the neutral card
GuesserAnswers(team) ==
    IF team = "RED"
    THEN {<<<<"A">>, <<"D">>>>, <<<<"A">>, <<"B">>>>, <<<<"C">>>>}
    ELSE {<<<<"B">>>>, <<<<"B">>, <<"A">>>>, <<<<"C">>>>}

Methods == {"mean", "min", "max"}

InitSelect ==
    /\ board = None
    /\ heap = <<>>
    /\ cfgs = None
    /\ turn = None
    /\ game = None
    /\ state \in {NewGame(t) : t \in Teams}
    /\ call = [op |-> "generate_board"]
    /\ outcome = Result(state, NoResult)
    /\ pc = "start"

\* select_clue_with_candidates up to the return of evaluate_candidates
EvaluateCandidates ==
    /\ pc = "start"
    /\ \E candidates \in CandidateLists, n \in 1..MaxSamples, method \in Methods :
          \E answers \in [1..(Len(candidates) * n) -> GuesserAnswers(state.current_team)] :
              LET clues == [i \in 1..Len(candidates) |->
                               to_clue(candidates[i], state.current_team)]
              IN  /\ call' = [op |-> "select_clue_with_candidates",
                              candidates |-> candidates, clues |-> clues,
                              rollouts_per_candidate |-> n, aggregation |-> method,
                              answers |-> answers]
                  /\ outcome' = evaluate_candidates(state, clues, n, answers)
    /\ pc' = "evaluated"
    /\ UNCHANGED <<board, heap, state, cfgs, turn, game>>

\* the rest of select_clue_with_candidates
SelectClue ==
    /\ pc = "evaluated"
    /\ outcome' = select_clue_with_candidates(call.aggregation, call.candidates, outcome)
    /\ pc' = "selected"
    /\ UNCHANGED <<board, heap, state, call, cfgs, turn, game>>

NextSelect == EvaluateCandidates \/ SelectClue

SpecSelect == InitSelect /\ [][NextSelect]_vars

-----------------------------------------------------------------------------
(* python/src/benchmark: runner.py and metrics.py.  The clue a selector     *)
(* picks and the answer of a guesser are drawn from small sets; the         *)
(* variable game holds the game being played (its id, its two agents and    *)
(* its turns so far), outcome the list all_games and, at the end, the       *)
(* BenchmarkMetrics.                                                         *)

\* RunnerConfig.max_turns of the model
MaxRunnerTurns == 2

\* the largest number of replicates
MaxReplicates == 2

\* the names of the agent that is benchmarked and of its opponent
AgentName == "agent"
OpponentName == "opponent"

\* the answers of the guessers: two cards of one team, the card of the other,
\* the neutral card, the assassin
BenchAnswers ==
    {<<<<"A">>, <<"D">>>>, <<<<"B">>>>, <<<<"C">>>>, <<<<"E">>>>}

\* one pass of the loop of run_game (runner.py, lines 103-164): the state
\* after the turn
run_turn(s, clue, words) ==
    simulate_guesses(give_clue(s, clue).state,
                     SubSeq(words, 1, Min(Len(words), clue.number + 1))).state

\* GameMetrics (runner.py, lines 167-179)
GameMetrics(g, s) ==
    [board_id |-> g.game_id,
     config_name |-> g.red_agent,
     winner |-> s.winner,
     total_turns |-> g.turns]

\* GameMetrics.red_won and blue_won (metrics.py, lines 48-54)
red_won(g) == g.winner = "RED"
blue_won(g) == g.winner = "BLUE"

\* BenchmarkMetrics.wins (metrics.py, lines 104-107)
wins(games) == Cardinality({k \in 1..Len(games) : red_won(games[k])})

\* BenchmarkMetrics.losses (metrics.py, lines 109-111)
losses(games) == Cardinality({k \in 1..Len(games) : blue_won(games[k])})

\* BenchmarkMetrics.win_rate (metrics.py, lines 113-117), as a fraction
win_rate(games) ==
    IF games = <<>> THEN Fraction(0, 1) ELSE Fraction(wins(games), Len(games))

\* the game ids of run_benchmark in the order it plays them
\* (runner.py, lines 240-264): board index, replicate, side of the agent
GameIds(replicates, mirror) ==
    [k \in 1..(replicates * (IF mirror THEN 2 ELSE 1)) |->
        IF mirror
        THEN <<0, (k - 1) \div 2, IF k % 2 = 1 THEN "red" ELSE "blue">>
        ELSE <<0, k - 1, "red">>]

\* the game that run_game starts (runner.py, lines 241-248 and 255-262)
NewRun(game_id) ==
    [game_id |-> game_id,
     red_agent |-> IF game_id[3] = "red" THEN AgentName ELSE OpponentName,
     blue_agent |-> IF game_id[3] = "red" THEN OpponentName ELSE AgentName,
     turns |-> 0]

NoRun == [game_id |-> <<>>, red_agent |-> None, blue_agent |-> None, turns |-> 0]

InitBench ==
    /\ heap = <<>>
    /\ cfgs = None
    /\ turn = None
    /\ board \in {NewGame(t) : t \in Teams}
    /\ \E replicates \in 1..MaxReplicates, mirror \in BOOLEAN :
          call = [op |-> "run_benchmark", replicates |-> replicates, mirror |-> mirror]
    /\ state = board
    /\ game = NoRun
    /\ outcome = <<>>
    /\ pc = "next_game"

\* run_benchmark starts the next game on a copy of the board
StartGame ==
    /\ pc = "next_game"
    /\ Len(outcome) < Len(GameIds(call.replicates, call.mirror))
    /\ game' = NewRun(GameIds(call.replicates, call.mirror)[Len(outcome) + 1])
    /\ state' = board
    /\ pc' = "game"
    /\ UNCHANGED <<board, heap, call, outcome, cfgs, turn>>

\* run_game: one turn of the team whose turn it is
PlayTurn ==
    /\ pc = "game"
    /\ ~state.game_over
    /\ game.turns < MaxRunnerTurns
    /\ \E number \in {0, 1}, words \in BenchAnswers :
          state' = run_turn(state, Clue(<<"z">>, number, state.current_team), words)
    /\ game' = [game EXCEPT !.turns = @ + 1]
    /\ UNCHANGED <<board, heap, pc, call, outcome, cfgs, turn>>

\* run_game returns and run_benchmark keeps the metrics; those of a mirror
\* game get the name of the agent
EndGame ==
    /\ pc = "game"
    /\ state.game_over \/ game.turns >= MaxRunnerTurns
    /\ outcome' = Append(outcome,
                         IF game.game_id[3] = "blue"
                         THEN [GameMetrics(game, state) EXCEPT !.config_name = AgentName]
                         ELSE GameMetrics(game, state))
    /\ pc' = "next_game"
    /\ UNCHANGED <<board, heap, state, call, cfgs, turn, game>>

\* run_benchmark returns the BenchmarkMetrics
ReturnMetrics ==
    /\ pc = "next_game"
    /\ Len(outcome) = Len(GameIds(call.replicates, call.mirror))
    /\ outcome' = [config_name |-> AgentName, total_games |-> Len(outcome),
                   games |-> outcome, wins |-> wins(outcome),
                   losses |-> losses(outcome), win_rate |-> win_rate(outcome)]
    /\ pc' = "done"
    /\ UNCHANGED <<board, heap, state, call, cfgs, turn, game>>

NextBench == StartGame \/ PlayTurn \/ EndGame \/ ReturnMetrics

SpecBench == InitBench /\ [][NextBench]_vars

-----------------------------------------------------------------------------
(* Properties of apply_turn, stated on the state in which a call has        *)
(* returned: `call` holds its arguments and the bitmap before the call,     *)
(* `outcome` its result and heap[state.revealed] the bitmap it left.        *)

StopReasons == {"stop", "limit", "wrong", "assassin", "invalid_or_repeat"}

Returned == pc = "returned"
Before == call.before
After == Revealed(heap, state)
Applied == outcome.applied
Guesses == call.guesses

\* the k-th guess after trim and upper-casing
Token(k) == upper(strip(Guesses[k]))

\* the cards whose flag was false before the call and is true after it
NewlyRevealed == {i \in 1..Len(Before) : ~Before[i] /\ After[i]}

\* the cards listed in applied
AppliedIndices == {Applied[k].index : k \in 1..Len(Applied)}

\* the bitmap after the first k entries of applied
BitmapAfter(k) ==
    [i \in 1..Len(Before) |-> Before[i] \/ \E m \in 1..k : Applied[m].index = i]

\* the k-th entry of applied is a card of the guessing team
Own(k) == Applied[k].card_type = outcome.team

\* the loop got as far as looking at guess k: the k - 1 guesses before it were
\* revealed, all of the team's colour, and the team still had cards left
Looked(k) ==
    /\ k \in 1..Len(Guesses)
    /\ Len(Applied) >= k - 1
    /\ \A m \in 1..(k - 1) : Own(m)
    /\ k > 1 => remaining(board, BitmapAfter(k - 1), outcome.team) > 0

\* guess k cannot be played on the bitmap the guesses before it left
Unplayable(k) ==
    \/ Token(k) = <<>>
    \/ \E m \in 1..(k - 1) : Token(m) = Token(k)
    \/ \A i \in 1..Len(board.words) : board.words[i] # Token(k)
    \/ \E i \in 1..Len(board.words) : board.words[i] = Token(k) /\ BitmapAfter(k - 1)[i]

\* C1: at most max_allowed = max(0, number + 1) guesses are applied; a guess
\* at source index >= max_allowed is never revealed and, when the loop gets to
\* it, stops the turn with limit; the stop reason is one of the five values.
C1_LimitCap ==
    (Returned /\ call.enforce_max_allowed) =>
        /\ outcome.max_allowed = (IF call.number >= 0 THEN call.number + 1 ELSE 0)
        /\ Len(Applied) <= outcome.max_allowed
        /\ outcome.stopped_reason \in StopReasons
        /\ Cardinality(NewlyRevealed) <= outcome.max_allowed
        /\ \A k \in 1..Len(Guesses) :
              (k - 1 >= outcome.max_allowed) =>
                  /\ Len(Applied) < k
                  /\ Looked(k) => outcome.stopped_reason = "limit"
        /\ outcome.stopped_reason = "limit" =>
              /\ Len(Applied) = outcome.max_allowed
              /\ Len(Guesses) > outcome.max_allowed

\* a call stopped by the limit after a reveal, and one with a negative number
C1_Witness ==
    /\ Returned
    /\ outcome.stopped_reason = "limit"
    /\ Len(Applied) = 1
    /\ call.number = 0
    /\ Len(Guesses) = 3

\* C2: the assassin reveal ends the turn and the game: it is the last entry of
\* applied, stopped_reason = assassin, game_over, winner = opponent, loser =
\* team, and no card but those of applied is revealed.
C2_Assassin ==
    Returned =>
        \A k \in 1..Len(Applied) :
            Applied[k].card_type = "ASSASSIN" =>
                /\ k = Len(Applied)
                /\ outcome.stopped_reason = "assassin"
                /\ outcome.game_over
                /\ outcome.winner = other_team(outcome.team)
                /\ outcome.loser = outcome.team
                /\ After = BitmapAfter(k)

\* the assassin is hit by the first guess while a playable guess, within the
\* limit, follows it in the list
C2_Witness ==
    /\ Returned
    /\ Len(Applied) = 1
    /\ Applied[1].card_type = "ASSASSIN"
    /\ Len(Guesses) >= 2
    /\ ~Unplayable(2)
    /\ outcome.max_allowed = 2

\* C3: an opponent or neutral reveal ends the turn with wrong, is the last
\* entry of applied, nothing later is revealed, and the game is over (winner =
\* opponent, loser = team) exactly when the opponent has no unrevealed card
\* after that reveal.
C3_Wrong ==
    Returned =>
        \A k \in 1..Len(Applied) :
            Applied[k].card_type \notin {outcome.team, "ASSASSIN"} =>
                /\ k = Len(Applied)
                /\ outcome.stopped_reason = "wrong"
                /\ After = BitmapAfter(k)
                /\ outcome.game_over <=>
                       remaining(board, BitmapAfter(k), other_team(outcome.team)) = 0
                /\ outcome.game_over =>
                       /\ outcome.winner = other_team(outcome.team)
                       /\ outcome.loser = outcome.team
                /\ ~outcome.game_over =>
                       /\ outcome.winner = None
                       /\ outcome.loser = None

\* the opponent's last card is revealed by mistake while a playable guess,
\* within the limit, follows it in the list
C3_Witness ==
    /\ Returned
    /\ Len(Applied) = 1
    /\ Applied[1].card_type = other_team(outcome.team)
    /\ outcome.game_over
    /\ Len(Guesses) >= 2
    /\ ~Unplayable(2)
    /\ outcome.max_allowed = 2

\* a neutral reveal after a correct one ends the turn and not the game
C3_WitnessNeutral ==
    /\ Returned
    /\ Len(Applied) = 2
    /\ Own(1)
    /\ Applied[2].card_type = "NEUTRAL"
    /\ ~outcome.game_over
    /\ Len(Guesses) = 3

\* C4: a correct reveal that takes the team's remaining count to zero ends the
\* turn at once with game_over, winner = team, loser = opponent and
\* stopped_reason = stop, nothing later being revealed; a correct reveal that
\* leaves the team cards lets the loop go on to the next guess.
C4_Correct ==
    Returned =>
        \A k \in 1..Len(Applied) :
            Own(k) =>
                IF remaining(board, BitmapAfter(k), outcome.team) = 0
                THEN /\ k = Len(Applied)
                     /\ outcome.game_over
                     /\ outcome.winner = outcome.team
                     /\ outcome.loser = other_team(outcome.team)
                     /\ outcome.stopped_reason = "stop"
                     /\ After = BitmapAfter(k)
                ELSE IF k = Len(Guesses)
                THEN outcome.stopped_reason = "stop" /\ ~outcome.game_over
                ELSE IF k >= outcome.max_allowed
                THEN outcome.stopped_reason = "limit" /\ Len(Applied) = k
                ELSE IF Unplayable(k + 1)
                THEN outcome.stopped_reason = "invalid_or_repeat" /\ Len(Applied) = k
                ELSE Len(Applied) > k

\* the team's last card is revealed while a playable guess, within the limit,
\* follows it in the list
C4_Witness ==
    /\ Returned
    /\ Len(Applied) = 1
    /\ Own(1)
    /\ outcome.game_over
    /\ outcome.winner = outcome.team
    /\ Len(Guesses) >= 2
    /\ ~Unplayable(2)
    /\ outcome.max_allowed = 2

\* a correct reveal that leaves cards is followed by another reveal
C4_WitnessContinue ==
    /\ Returned
    /\ Len(Applied) = 2
    /\ Own(1)
    /\ remaining(board, BitmapAfter(1), outcome.team) > 0

\* C5: a guess within the limit that is empty after trim/upper-casing, repeats
\* a token of this turn, is not a board word or names a revealed card stops
\* the turn with invalid_or_repeat; nothing is revealed for it (the bitmap is
\* what the earlier guesses left) and game_over is false.
C5_InvalidOrRepeat ==
    Returned =>
        /\ \A k \in 1..Len(Guesses) :
              (Looked(k) /\ k - 1 < outcome.max_allowed /\ Unplayable(k)) =>
                  /\ outcome.stopped_reason = "invalid_or_repeat"
                  /\ Len(Applied) = k - 1
                  /\ After = BitmapAfter(k - 1)
                  /\ ~outcome.game_over
                  /\ outcome.winner = None
        /\ outcome.stopped_reason = "invalid_or_repeat" =>
              /\ Len(Applied) < Len(Guesses)
              /\ Unplayable(Len(Applied) + 1)

\* a repeated token after a reveal
C5_WitnessRepeat ==
    /\ Returned
    /\ outcome.stopped_reason = "invalid_or_repeat"
    /\ Len(Applied) = 1
    /\ Token(2) = Token(1)

\* a card revealed by an earlier call is named again
C5_WitnessRevealed ==
    /\ Returned
    /\ outcome.stopped_reason = "invalid_or_repeat"
    /\ Len(Applied) = 1
    /\ \E i \in 1..Len(board.words) : board.words[i] = Token(2) /\ Before[i]

\* an empty token and a word that is not on the board
C5_WitnessEmpty ==
    /\ Returned
    /\ outcome.stopped_reason = "invalid_or_repeat"
    /\ Len(Applied) = 1
    /\ Token(2) = <<>>

C5_WitnessOffBoard ==
    /\ Returned
    /\ outcome.stopped_reason = "invalid_or_repeat"
    /\ Len(Applied) = 0
    /\ Token(1) # <<>>
    /\ \A i \in 1..Len(board.words) : board.words[i] # Token(1)

\* C6: the stop reason agrees with the card types of applied: all entries but
\* possibly the last are the team's colour; assassin iff the last entry is the
\* ASSASSIN; wrong iff the last entry is the opponent's colour or NEUTRAL; with
\* stop, limit or invalid_or_repeat every entry is the team's colour.
C6_ReasonConsistent ==
    Returned =>
        LET n == Len(Applied)
            last == Applied[n].card_type
        IN  /\ \A k \in 1..(n - 1) : Own(k)
            /\ outcome.stopped_reason = "assassin" <=> (n > 0 /\ last = "ASSASSIN")
            /\ outcome.stopped_reason = "wrong" <=>
                   (n > 0 /\ last \in {other_team(outcome.team), "NEUTRAL"})
            /\ outcome.stopped_reason \in {"stop", "limit", "invalid_or_repeat"} =>
                   \A k \in 1..n : Own(k)

\* a turn of a correct reveal followed by a wrong one
C6_Witness ==
    /\ Returned
    /\ Len(Applied) = 2
    /\ Own(1)
    /\ outcome.stopped_reason = "wrong"

\* C7: apply_turn changes the bitmap only at the indices listed in applied,
\* each false before and true after; no set flag is reset, current_team is
\* untouched, so the bitmap never decreases and remaining(team) never
\* increases, for both teams, over any sequence of calls.
C7_RevealMonotone ==
    [][ /\ \A i \in 1..Len(After) : After[i] => After'[i]
        /\ Len(After') = Len(After)
        /\ \A t \in Teams : remaining(board, After', t) <= remaining(board, After, t)
        /\ state' = state
        /\ pc' = "returned" =>
              /\ call'.before = After
              /\ {i \in 1..Len(After) : After[i] # After'[i]}
                     = {outcome'.applied[k].index : k \in 1..Len(outcome'.applied)}
              /\ \A k \in 1..Len(outcome'.applied) :
                     /\ ~After[outcome'.applied[k].index]
                     /\ After'[outcome'.applied[k].index]
              /\ Cardinality({outcome'.applied[k].index : k \in 1..Len(outcome'.applied)})
                     = Len(outcome'.applied)
      ]_vars

\* a call that reveals two cards on a bitmap that earlier calls had changed
C7_Witness ==
    /\ Returned
    /\ Len(Applied) = 2
    /\ \E i \in 1..Len(Before) : Before[i]
    /\ \A i \in 1..Len(Before) : Before[i] => After[i]

\* C8: when the list is exhausted with no stop rule firing the reason is stop;
\* for an empty list the call returns stop, applied = [], game_over = false
\* and leaves the bitmap as it was.
C8_NaturalEnd ==
    Returned =>
        /\ (Len(Applied) = Len(Guesses) /\ \A k \in 1..Len(Applied) : Own(k))
               => outcome.stopped_reason = "stop"
        /\ Len(Guesses) = 0 =>
               /\ outcome.stopped_reason = "stop"
               /\ Applied = <<>>
               /\ ~outcome.game_over
               /\ outcome.winner = None /\ outcome.loser = None
               /\ After = Before

\* an empty guess list, whatever the number
C8_WitnessEmpty ==
    /\ Returned
    /\ Len(Guesses) = 0
    /\ call.number = 1
    /\ \E i \in 1..Len(Before) : Before[i]

\* a list played to its end
C8_WitnessExhausted ==
    /\ Returned
    /\ Len(Guesses) = 1
    /\ Len(Applied) = 1
    /\ Own(1)
    /\ ~outcome.game_over
    /\ outcome.stopped_reason = "stop"

-----------------------------------------------------------------------------
(* Properties of take_turn *)

TurnStages == {"GEN", "LEGAL", "FALLBACK", "EVAL", "PICK", "PLAY", "APPLY"}

InTurn == pc \in TurnStages \cup {"raised"}

\* the rollout samples taken so far in this turn
RolloutSamples ==
    {turn.samples[i] : i \in 1..Len(turn.samples)}
        \cup UNION {{turn.evals[e].samples[i] : i \in 1..Len(turn.evals[e].samples)} :
                       e \in 1..Len(turn.evals)}

\* C9: from the entry of take_turn up to APPLY the live bitmap is the one the
\* turn started with, whatever GEN, LEGAL, FALLBACK, the rollouts, PICK and
\* PLAY did; a rollout's copy is another list than the live one, and on
\* return the bitmap differs from the start only where APPLY revealed cards.
C9_LiveChangedOnlyByApply ==
    /\ InTurn =>
          /\ Revealed(heap, state) = turn.start
          /\ turn.sim_state # NoState =>
                /\ turn.sim_state.revealed # state.revealed
                /\ \A i \in 1..Len(turn.start) :
                      Revealed(heap, turn.sim_state)[i] <=>
                          \/ turn.start[i]
                          \/ \E k \in 1..Len(turn.samples[Len(turn.samples)].outcome.applied) :
                                turn.samples[Len(turn.samples)].outcome.applied[k].index = i
    /\ pc = "TURN_DONE" =>
          /\ call.before = turn.start
          /\ \A i \in 1..Len(turn.start) :
                Revealed(heap, state)[i] # turn.start[i] =>
                    \E k \in 1..Len(outcome.applied) : outcome.applied[k].index = i

\* a rollout has revealed a card on its copy and the live bitmap has not moved
C9_Witness ==
    /\ pc = "EVAL"
    /\ turn.sim_state # NoState
    /\ Revealed(heap, turn.sim_state) # Revealed(heap, state)
    /\ \E i \in 1..Len(turn.start) : turn.start[i]
    /\ Revealed(heap, state) = turn.start
    /\ \E sm \in RolloutSamples : sm.outcome.applied # <<>>

\* a list of guesses as the claim wants it after sanitising: upper-case
\* tokens, no duplicates, every token an unrevealed word at the turn's start
CleanGuesses(gs) ==
    /\ \A i \in 1..Len(gs) : upper(gs[i]) = gs[i]
    /\ \A i, j \in 1..Len(gs) : gs[i] = gs[j] => i = j
    /\ \A i \in 1..Len(gs) : InList(gs[i], unrevealed_words(board, turn.start))

\* C10: for every rollout and for the real PLAY call, whatever the guesser
\* model returns, the sanitised guesses are upper-case, without duplicates,
\* and all words of the pre-turn unrevealed word list.
C10_SanitisedGuessesClean ==
    InTurn =>
        /\ \A sm \in RolloutSamples : CleanGuesses(sm.guesses)
        /\ pc = "APPLY" => CleanGuesses(turn.guesses)

-----------------------------------------------------------------------------
(* Properties of take_turn's clue and of its failure paths *)

\* the clue and the number apply_turn was given in APPLY
PlayedClue == outcome.clue
PlayedNumber == outcome.number

\* the turn used FALLBACK
UsedFallback == turn.fallback_resp # NoResponse

\* C11: every clue take_turn plays on the live state, whether it came from
\* GEN or from FALLBACK, is different from every word on the board.
C11_PlayedClueNotOnBoard ==
    pc = "TURN_DONE" => ~InList(PlayedClue, board.words)

\* the rejection entries that record the use of the fallback
FallbackEntries ==
    {i \in 1..Len(turn.rejected_all) :
        turn.rejected_all[i]._reject_reason.tag = "no_legal_candidates_fallback_used"}

C13_GenFailureNotFatal ==
    [][pc = "GEN" =>
          /\ pc' = "LEGAL"
          /\ Len(turn'.candidates_raw) + Len(turn'.rejected_generation) >= 1]_vars

\* an exception other than a GEN spymaster failure has left take_turn
FatalError == pc = "raised" /\ turn.error # "spymaster_call_failed"

\* C14: a fatal error raised during a turn (a guesser call failing in EVAL or
\* PLAY) ends that game with end_reason "error"; no exception leaves
\* play_game.
C14_FatalErrorEndsGame ==
    FatalError => game.end_reason = "error"

\* a guesser call of EVAL or PLAY failed
GuesserFailed == pc = "raised" /\ turn.error = "guesser_call_failed"

\* C15: when a guesser call fails during EVAL or PLAY, take_turn raises
\* without a partial result (no outcome, no turn log, no turn counted) and
\* the live state's bitmap and current_team are those of the turn's start.
C15_GuesserFailureLeavesLiveState ==
    GuesserFailed =>
        /\ Revealed(heap, state) = turn.start
        /\ state.current_team = turn.team
        /\ turn.log = None
        /\ outcome = NoOutcome
        /\ game.turns = game.turn_idx
        /\ game.end_reason = "unknown"

\* the call failed after a rollout had revealed cards on its copy, in a turn
\* that started with cards revealed
C15_Witness ==
    /\ GuesserFailed
    /\ turn.samples # <<>>
    /\ turn.samples[1].outcome.applied # <<>>
    /\ \E i \in 1..Len(turn.start) : turn.start[i]

\* the call of PLAY failed, after every candidate had been evaluated
C15_WitnessPlay ==
    /\ GuesserFailed
    /\ turn.eval_candidates # <<>>
    /\ turn.ci > Len(turn.eval_candidates)
    /\ Len(turn.evals) = Len(turn.eval_candidates)

-----------------------------------------------------------------------------
(* Properties of play_game *)

\* the team that plays turn k of a game on board b
TeamOfTurn(b, k) ==
    IF k % 2 = 0 THEN b.starting_team
    ELSE IF b.starting_team = "RED" THEN "BLUE" ELSE "RED"

\* take_turn is running or has just returned
TurnEntered == pc \in TurnStages \cup {"raised", "TURN_DONE"}

\* a step that switches state.current_team ends a turn that did not end the
\* game, and such a turn is followed by exactly that switch
SwitchesAfterTurn ==
    /\ (state'.current_team # state.current_team) =>
          (/\ pc = "TURN_DONE"
           /\ ~outcome.game_over
           /\ game'.turn_idx = game.turn_idx + 1)
    /\ (pc = "TURN_DONE" /\ ~outcome.game_over /\ pc' # pc) =>
          (/\ state'.current_team # state.current_team
           /\ pc' = "LOOP")

\* C16: play_game alternates teams starting with board.starting_team: turn k
\* is played by the starting team when k is even and by its opponent when k
\* is odd, by the agent configured for that colour; state.current_team is
\* switched exactly once after each turn that does not end the game, and at
\* no other time.
C16_TeamsAlternate ==
    /\ [](pc \in {"LOOP"} \cup TurnStages \cup {"raised", "TURN_DONE"} =>
            state.current_team = TeamOfTurn(board, game.turn_idx))
    /\ [](TurnEntered =>
            (/\ turn.team = TeamOfTurn(board, game.turn_idx)
             /\ turn.agent = cfgs[turn.team]))
    /\ [][SwitchesAfterTurn]_vars

\* the third turn of a game is played by the starting team again
C16_Witness ==
    /\ pc = "APPLY"
    /\ game.turn_idx = 2
    /\ turn.team = board.starting_team
    /\ turn.agent = cfgs[board.starting_team]

\* the last turn played has an outcome with game_over
GameOver == pc \in {"TURN_DONE", "done"} /\ outcome.game_over

\* after an outcome with game_over nothing is played: the only step left is
\* the one that records the result and returns
NothingAfterGameOver ==
    GameOver =>
        /\ pc' = "done"
        /\ heap' = heap
        /\ state' = state
        /\ turn' = turn
        /\ outcome' = outcome
        /\ game'.turn_idx = game.turn_idx

\* C17: once a turn's outcome has game_over the game stays over: play_game
\* plays no further turn on that state, and the record's winner and loser
\* are those of that final outcome.
C17_GameStaysOver ==
    /\ [][NothingAfterGameOver]_vars
    /\ [](pc = "done" /\ outcome.game_over =>
            (/\ game.winner = outcome.winner
             /\ game.loser = outcome.loser
             /\ game.winner \in Teams
             /\ game.loser \in Teams \ {game.winner}))

\* a game was won in its first turn, with turns to spare
C17_Witness ==
    /\ pc = "done"
    /\ outcome.game_over
    /\ game.turn_idx = 0
    /\ game.turns = 1
    /\ game.winner = outcome.winner

\* play_game has returned its record
Done == pc = "done"

\* the label of the record agrees with the last turn's outcome
EndLabelled ==
    /\ game.end_reason \in {"assassin", "completed_agents", "max_turns"}
    /\ game.end_reason = "assassin" <=>
          (outcome.game_over /\ outcome.stopped_reason = "assassin")
    /\ game.end_reason = "completed_agents" <=>
          (outcome.game_over /\ outcome.stopped_reason # "assassin")
    /\ (game.end_reason = "max_turns" /\ game.winner = None) <=> ~outcome.game_over
    /\ ~outcome.game_over => game.turns = MaxTurns

\* C18: play_game terminates after at most max_turns turns (when every
\* take_turn returns) and labels the end: assassin iff the last outcome has
\* game_over with stopped_reason assassin, completed_agents iff it has
\* game_over with another stop reason, max_turns with no winner iff no turn
\* ended the game within max_turns.
C18_TerminatesLabelled ==
    /\ [](game.turns <= MaxTurns /\ game.turn_idx <= MaxTurns)
    /\ [](pc \in TurnStages \cup {"TURN_DONE"} => game.turns < MaxTurns)
    /\ [](Done => EndLabelled)
    /\ <>Halted

\* a game that reached max_turns without a winner
C18_Witness ==
    /\ Done
    /\ game.end_reason = "max_turns"
    /\ game.winner = None
    /\ game.turns = MaxTurns

\* a game that ended on the assassin
C18_WitnessAssassin ==
    /\ Done
    /\ game.end_reason = "assassin"
    /\ outcome.stopped_reason = "assassin"

\* a game that ended because a team found its last card
C18_WitnessCompleted ==
    /\ Done
    /\ game.end_reason = "completed_agents"
    /\ outcome.stopped_reason = "stop"

-----------------------------------------------------------------------------
(* Properties of PICK *)

\* e is preferred to f: a higher selection score; with equal scores a higher
\* mean; with equal scores and means a lower deviation
Preferred(e, f) ==
    \/ Cmp(e.selection_score, f.selection_score) > 0
    \/ /\ Cmp(e.selection_score, f.selection_score) = 0
       /\ Cmp(e.mean_utility, f.mean_utility) > 0
    \/ /\ Cmp(e.selection_score, f.selection_score) = 0
       /\ Cmp(e.mean_utility, f.mean_utility) = 0
       /\ Cmp(e.std_utility, f.std_utility) < 0

\* neither is preferred to the other
SameStatistics(e, f) == ~Preferred(e, f) /\ ~Preferred(f, e)

\* PICK has chosen
Picked == pc = "PLAY"

\* C19: PICK chooses the evaluated candidate that maximises
\* (selection_score, mean_utility, -std_utility) lexicographically; among
\* candidates with identical statistics it chooses the earliest in
\* evaluation order.
C19_PickLexicographicMax ==
    Picked =>
        \E i \in 1..Len(turn.evals) :
            /\ turn.best = turn.evals[i]
            /\ \A j \in 1..Len(turn.evals) : ~Preferred(turn.evals[j], turn.best)
            /\ \A j \in 1..(i - 1) : Preferred(turn.best, turn.evals[j])

\* three candidates: the first loses on the mean, the other two have
\* identical statistics and the earlier one is chosen
C19_Witness ==
    /\ Picked
    /\ Len(turn.evals) = 3
    /\ Cmp(turn.evals[1].selection_score, turn.evals[2].selection_score) = 0
    /\ Cmp(turn.evals[1].mean_utility, turn.evals[2].mean_utility) < 0
    /\ SameStatistics(turn.evals[2], turn.evals[3])
    /\ turn.best = turn.evals[2]

\* equal scores and means: the candidate with the lower deviation is chosen
C19_WitnessDeviation ==
    /\ Picked
    /\ Len(turn.evals) = 2
    /\ Cmp(turn.evals[1].selection_score, turn.evals[2].selection_score) = 0
    /\ Cmp(turn.evals[1].mean_utility, turn.evals[2].mean_utility) = 0
    /\ Cmp(turn.evals[1].std_utility, turn.evals[2].std_utility) > 0
    /\ turn.best = turn.evals[2]

-----------------------------------------------------------------------------
(* Properties of the candidates EVAL evaluates *)

\* LEGAL has chosen the candidates to evaluate from a legal list that is not
\* empty
Truncated == pc \in {"EVAL", "PICK"} /\ ~UsedFallback

\* C20: for any configured max_eval_candidates, EVAL evaluates at most that
\* many candidates, namely the first min(max_eval_candidates, n) of the n
\* legal ones in the order of LEGAL; when it is not set, all n in that order.
C20_EvalIsPrefix ==
    Truncated =>
        LET m == cfg.selection.max_eval_candidates
            n == Len(turn.final_legal)
        IN  IF m = Null THEN turn.eval_candidates = turn.final_legal
            ELSE /\ Len(turn.eval_candidates) <= m.v
                 /\ turn.eval_candidates = SubSeq(turn.final_legal, 1, Min(m.v, n))

-----------------------------------------------------------------------------
(* Properties of LEGAL *)

\* LEGAL has run
Filtered == pc \in {"FALLBACK", "EVAL", "PICK"} /\ ~UsedFallback

\* the cards the turn's team has left when the turn starts
Rem == remaining(board, turn.start, turn.team)

\* the number of candidate c is an integer in 1..min(9, rem)
NumberInRange(c) ==
    /\ c.number.kind = "int"
    /\ 1 <= c.number.v
    /\ c.number.v <= (IF Rem < 9 THEN Rem ELSE 9)

\* the reason the number-range pass gives for a number out of the range
NumberReason(c) ==
    IF c.number.kind # "int" THEN Reason("bad_number", <<>>)
    ELSE IF c.number.v < 1 THEN Reason("number_lt_1", <<>>)
    ELSE Reason("number_gt_remaining", Rem)

\* the rejections of LEGAL: the rejected list without those of GEN
RejectedByLegal ==
    SubSeq(turn.rejected_all, Len(turn.rejected_generation) + 1, Len(turn.rejected_all))

\* the rejections whose reason is one of the number-range pass
IsNumberRejection(r) ==
    r._reject_reason.tag \in {"bad_number", "number_lt_1", "number_gt_remaining"}

NumberRejections == SelectSeq(RejectedByLegal, IsNumberRejection)

\* the candidates that passed the legality filter, in the order they reach
\* the number-range pass
LegalByFilter ==
    filter_legal_clues(cand_dicts(turn.candidates_raw), board.words).legal

\* C21: the number-range pass keeps exactly the legal candidates whose number
\* is an integer n with 1 <= n <= min(9, remaining(team)); every other legal
\* candidate is rejected as bad_number, number_lt_1 or
\* number_gt_remaining(rem), so every candidate that reaches EVAL without
\* FALLBACK has its number in the range.
C21_NumberRange ==
    Filtered =>
        LET Out(c) == ~NumberInRange(c)
            out == SelectSeq(LegalByFilter, Out)
        IN  /\ turn.final_legal = SelectSeq(LegalByFilter, NumberInRange)
            /\ Len(NumberRejections) = Len(out)
            /\ \A i \in 1..Len(out) :
                  /\ NumberRejections[i]._raw = out[i]._raw
                  /\ NumberRejections[i]._reject_reason = NumberReason(out[i])
            /\ \A i \in 1..Len(turn.eval_candidates) :
                  NumberInRange(turn.eval_candidates[i])

\* ten cards remain: number 9 is kept, number 10 and a number that is no
\* integer are rejected
C21_Witness ==
    /\ Filtered
    /\ Rem = 10
    /\ Len(turn.final_legal) = 1
    /\ turn.final_legal[1].number = IntV(9)
    /\ Len(NumberRejections) = 2
    /\ \E i \in 1..2 : NumberRejections[i]._reject_reason = Reason("number_gt_remaining", 10)
    /\ \E i \in 1..2 : NumberRejections[i]._reject_reason = Reason("bad_number", <<>>)

\* two cards remain: a candidate without a number is kept with the default
\* 1, numbers 0 and 9 are rejected
C21_WitnessSmall ==
    /\ Filtered
    /\ Rem = 2
    /\ Len(turn.final_legal) = 1
    /\ "number" \notin DOMAIN turn.final_legal[1]._raw
    /\ Len(NumberRejections) = 2
    /\ NumberRejections[1]._reject_reason = Reason("number_lt_1", <<>>)
    /\ NumberRejections[2]._reject_reason = Reason("number_gt_remaining", 2)

\* the positions of the generated candidates that f sends to list k, in
\* generation order
Positions(f, k) ==
    LET To(i) == f[i] = k
    IN  SelectSeq([i \in 1..Len(turn.candidates_raw) |-> i], To)

\* the generated candidates at the positions ix
Generated(ix) == [j \in 1..Len(ix) |-> turn.candidates_raw[ix[j]]]

\* the generated candidates the entries of a list stand for
Raws(list) == [j \in 1..Len(list) |-> list[j]._raw]

\* every rejection of LEGAL carries a reason, and none is ok
RejectedWithReason ==
    \A i \in 1..Len(RejectedByLegal) :
       /\ "_reject_reason" \in DOMAIN RejectedByLegal[i]
       /\ RejectedByLegal[i]._reject_reason # Ok

\* C22 as stated: LEGAL splits the generated candidates into the legal list
\* and the rejected list, each candidate in exactly one of them, both lists
\* in generation order, every rejected item with a reason other than ok.
C22_PartitionInOrder ==
    Filtered =>
        /\ RejectedWithReason
        /\ \E f \in [1..Len(turn.candidates_raw) -> {"legal", "rejected"}] :
              /\ Raws(turn.final_legal) = Generated(Positions(f, "legal"))
              /\ Raws(RejectedByLegal) = Generated(Positions(f, "rejected"))

\* C22 (amended): LEGAL puts every generated candidate in exactly one of the
\* legal list or the rejected list and every rejected item carries a reason
\* other than ok; the legal list is in generation order, and the rejected
\* list holds the rejections of the legality filter in generation order
\* followed by those of the number-range pass in generation order.
C22_PartitionByPass ==
    Filtered =>
        /\ RejectedWithReason
        /\ \E f \in [1..Len(turn.candidates_raw) -> {"legal", "word", "number"}] :
              LET words == Positions(f, "word")
              IN  /\ Raws(turn.final_legal) = Generated(Positions(f, "legal"))
                  /\ Raws(RejectedByLegal) =
                        Generated(words) \o Generated(Positions(f, "number"))
                  /\ \A i \in 1..Len(RejectedByLegal) :
                        IsNumberRejection(RejectedByLegal[i]) <=> i > Len(words)

\* three candidates, one in each list: a number rejection generated before
\* a legality rejection, and a legal candidate
C22_Witness ==
    /\ Filtered
    /\ Len(turn.candidates_raw) = 3
    /\ turn.candidates_raw[1] = [clue |-> <<"z", "a", "p">>, number |-> IntV(0)]
    /\ turn.candidates_raw[2] = [clue |-> <<"C", "A", "T">>, number |-> IntV(1)]
    /\ Len(turn.final_legal) = 1
    /\ Raws(RejectedByLegal) = <<turn.candidates_raw[2], turn.candidates_raw[1]>>

\* two legal candidates that differ, kept in generation order
C22_WitnessLegalOrder ==
    /\ Filtered
    /\ Len(turn.final_legal) = 2
    /\ turn.final_legal[1]._raw # turn.final_legal[2]._raw
    /\ Raws(turn.final_legal) = SubSeq(turn.candidates_raw, 1, 2)

-----------------------------------------------------------------------------
(* Properties of create_json, stated on the record of what the current call *)
(* did (`game`), its arguments and locals (`call`) and the cache (`heap`).   *)

\* a create_json call has been made
Called == pc \in {"loop", "returned", "raised"}

IsRequest(e) == e.ev = "request"
IsSleep(e) == e.ev = "sleep"
IsSalvage(e) == e.ev = "salvage"

Requests == SelectSeq(game, IsRequest)
Sleeps == SelectSeq(game, IsSleep)

\* the parameters of the call are deterministic
Deterministic(payload) == payload.temperature = 0 /\ payload.top_p = 10

\* C23: a refusal, or output that is not JSON even after the salvage parse,
\* is fatal to the call and is not retried: once the API has answered (status
\* 200) the call neither sleeps nor sends another request, and it runs the
\* salvage parse at most once.
C23_FatalNotRetried ==
    Called =>
        /\ \A i \in 1..Len(game) :
              game[i] = Request("200") =>
                  \A k \in (i + 1)..Len(game) : ~IsSleep(game[k]) /\ ~IsRequest(game[k])
        /\ Len(SelectSeq(game, IsSalvage)) <= 1

\* C24: the cache is written only after a successful response: a call that
\* ends in an error leaves the cache as it found it, and every stored entry
\* is a response from which a parsed result is returned, so that a cache hit
\* returns instead of raising.
C24_CacheHoldsParsedResponses ==
    /\ \A r \in heap : _parse_response(r.value).ok
    /\ pc = "raised" => heap = call.rows_at_entry

\* C25: within one call every retryable failure (429, 5xx, transport error)
\* is followed at once by a sleep of the current backoff, the backoff starts
\* at 1 s and doubles after every failure, at most `retries` requests are
\* made, and a call all of whose requests failed has raised, not returned.
C25_RetryWithBackoff ==
    Called =>
        /\ Len(Requests) <= call.retries
        /\ \A i \in 1..Len(game) :
              (IsRequest(game[i]) /\ game[i].status \in {"429", "503", "transport"}) =>
                  /\ i < Len(game)
                  /\ IsSleep(game[i + 1])
        /\ \A k \in 1..Len(Sleeps) :
              Sleeps[k].seconds = IF k = 1 THEN 1 ELSE 2 * Sleeps[k - 1].seconds
        /\ (Len(Sleeps) > 0 /\ pc = "loop") => call.backoff = 2 * Sleeps[Len(Sleeps)].seconds
        /\ (pc = "loop" /\ Len(Sleeps) = 0) => call.backoff = 1
        /\ (pc # "loop" /\ Len(Requests) > 0 /\ Len(Sleeps) = Len(Requests)) => pc = "raised"
        /\ (pc = "returned" /\ Len(Requests) > 0) => Len(Sleeps) = Len(Requests) - 1

\* three requests, failing with 429, a transport error and 503, with sleeps
\* of 1, 2 and 4 seconds, and the call has raised
C25_Witness ==
    /\ pc = "raised"
    /\ call.retries = 3
    /\ game = <<Request("429"), Sleep(1), Request("transport"), Sleep(2),
                Request("503"), Sleep(4)>>

\* C26: with cache_deterministic_only = true a call whose temperature is not
\* 0 or whose top_p is not 1.0 neither reads nor writes the cache; with the
\* gate disabled, or with deterministic parameters, the cache is read before
\* any network request.
C26_CacheGate ==
    Called =>
        /\ (call.cache_deterministic_only /\ ~Deterministic(call.payload)) =>
              /\ \A i \in 1..Len(game) : game[i] # CacheGet /\ game[i] # CacheSet
              /\ heap = call.rows_at_entry
        /\ (cfgs.cache /\ (~call.cache_deterministic_only \/ Deterministic(call.payload))) =>
              /\ Len(game) > 0
              /\ game[1] = CacheGet
        /\ \A i \in 1..Len(game) : game[i] = CacheSet => game[1] = CacheGet

\* the gate is on and the temperature is 0.7: the call went to the network
\* and returned, the cache of the client is still empty
C26_Witness ==
    /\ pc = "returned"
    /\ cfgs.cache
    /\ call.cache_deterministic_only
    /\ call.payload.temperature = 7
    /\ game = <<Request("200")>>
    /\ heap = {}

\* the gate is off and the temperature is 0.7: the cache was read first and
\* the response was stored
C26_WitnessGateOff ==
    /\ pc = "returned"
    /\ ~call.cache_deterministic_only
    /\ call.payload.temperature = 7
    /\ game = <<CacheGet, Request("200"), CacheSet>>
    /\ heap # {}

\* a deterministic call that uses the cache returns, after an earlier one
\* with the same payload has returned
RepeatReturns ==
    /\ pc' = "returned"
    /\ call'.use_cache
    /\ Deterministic(call'.payload)
    /\ turn[call'.payload] # NoResponse

RepeatServedFromCache ==
    RepeatReturns =>
        /\ outcome'.response.parsed = turn[call'.payload].parsed
        /\ game' = <<CacheGet>> \/ game' = <<CacheGet, Salvage>>

\* C27: with caching enabled, temperature = 0 and top_p = 1.0, a call with
\* the payload of an earlier successful call returns the parsed output of
\* that call, and it is served from the cache without a network request,
\* whatever the model would answer now.
C27_Deterministic == [][RepeatServedFromCache]_vars

\* the second call with a deterministic payload is served from the cache
\* what the first one, which went to the network, had returned
C27_Witness ==
    /\ pc = "returned"
    /\ state.calls = 2
    /\ Deterministic(call.payload)
    /\ game = <<CacheGet>>
    /\ call.rows_at_entry = heap
    /\ outcome.response = turn[call.payload]
    /\ outcome.response.raw = AnswerB

-----------------------------------------------------------------------------
(* Properties of is_legal_clue *)

\* is_legal_clue has returned
Judged == pc = "returned"

\* the normalised clue of the call
ClueNorm == normalize_token(call.clue)

\* c is w with a trailing S added or taken away
PluralOf(c, w) == c = w \o <<"S">> \/ c \o <<"S">> = w

\* the rejection names a board word
NamesBoardWord ==
    outcome.tag \in {"matches_board_word", "substring_overlap", "plural_variant"}

\* C28: legality rejects substring and plural with distinct reasons: a clue
\* rejected for a board word that is the clue plus or minus a trailing S
\* (CATS on a board with CAT) has the reason plural_variant:<that word>, and
\* one rejected for a board word it overlaps otherwise (CATNIP) has the
\* reason substring_overlap:<that word>.
C28_PluralAndSubstringReasons ==
    (Judged /\ NamesBoardWord /\ ClueNorm # normalize_token(outcome.arg)) =>
        IF PluralOf(ClueNorm, normalize_token(outcome.arg))
        THEN outcome.tag = "plural_variant"
        ELSE outcome.tag = "substring_overlap"

\* C29: soundness of the legality check: when is_legal_clue returns ok, the
\* normalised clue is not empty, is not a banned word and, for every board
\* word, is not equal to the normalised word, is not inside it, does not
\* contain it and is not the word plus or minus a trailing S.
C29_LegalitySound ==
    (Judged /\ outcome = Ok) =>
        /\ ClueNorm # <<>>
        /\ ClueNorm \notin _BANNED_CLUES
        /\ \A i \in 1..Len(call.board_words) :
              LET w == normalize_token(call.board_words[i])
              IN  /\ ClueNorm # w
                  /\ ~IsSubstring(ClueNorm, w)
                  /\ ~IsSubstring(w, ClueNorm)
                  /\ ~PluralOf(ClueNorm, w)

\* a clue with an apostrophe is legal on a board of two words with which
\* it shares letters
C29_Witness ==
    /\ Judged
    /\ outcome = Ok
    /\ call.clue = <<"s", "'", "s">>
    /\ call.board_words = << <<"C", "A", "T">>, <<"C", "-", "A", "S">> >>

\* a clue without a board letter is legal
C29_WitnessNamed ==
    /\ Judged
    /\ outcome = Ok
    /\ call.clue = <<"Z", "A", "P">>
    /\ Len(call.board_words) = MaxBoardWords

-----------------------------------------------------------------------------
(* Properties of the selection score *)

\* the candidate has been evaluated
Scored == pc = "returned"

U == call.utilities

\* the sum of the utilities
Total == SumSeq(U)

\* the sum of the squared deviations from the mean, times Len(U)^2
SquaredDeviations ==
    SumSeq([i \in 1..Len(U) |-> (Len(U) * U[i] - Total) * (Len(U) * U[i] - Total)])

\* the arithmetic mean
RefMean == Surd(Total, 0, 0, Len(U))

\* the mean minus lambda (in tenths) times the population standard deviation,
\* sqrt(SquaredDeviations / Len(U)) / Len(U); the quotient is an integer
RefMeanMinusLambdaStd ==
    Surd(10 * Total, 0 - cfgs.selection.lambda_std, SquaredDeviations \div Len(U),
         10 * Len(U))

\* v is the element at 0-based position idx of U in ascending order
IsOrderStatistic(v, idx) ==
    /\ \E i \in 1..Len(U) : U[i] = v
    /\ Cardinality({i \in 1..Len(U) : U[i] < v}) <= idx
    /\ Cardinality({i \in 1..Len(U) : U[i] <= v}) >= idx + 1

\* floor(0.1 * (Len(U) - 1))
P10Index == (Len(U) - 1) \div 10

\* x and y are the same number: they have the same form in lowest terms
SameNumber(x, y) == Normal(x) = Normal(y)

\* C30: for a non-empty list U of rollout utilities the selection score is
\* the arithmetic mean of U in mode mean, the mean minus lambda times the
\* population standard deviation in mode mean_minus_lambda_std, and the
\* element at index floor(0.1 * (|U| - 1)) of U in ascending order in mode
\* p10; with |U| = 1 it is U[0] in every mode.
C30_SelectionScore ==
    Scored =>
        /\ cfgs.selection.aggregate = "mean" =>
              SameNumber(outcome.selection_score, RefMean)
        /\ cfgs.selection.aggregate = "mean_minus_lambda_std" =>
              /\ SquaredDeviations % Len(U) = 0
              /\ SameNumber(outcome.selection_score, RefMeanMinusLambdaStd)
        /\ cfgs.selection.aggregate = "p10" =>
              /\ outcome.selection_score.b = 0
              /\ outcome.selection_score.den = 1
              /\ IsOrderStatistic(outcome.selection_score.a, P10Index)
        /\ Len(U) = 1 => SameNumber(outcome.selection_score, Surd(U[1], 0, 0, 1))

\* three utilities whose deviation is no rational number, lambda 0.7
C30_Witness ==
    /\ Scored
    /\ cfgs.selection.aggregate = "mean_minus_lambda_std"
    /\ cfgs.selection.lambda_std = 7
    /\ U = <<10, -3, 0>>
    /\ Cmp(outcome.selection_score, outcome.mean_utility) < 0

\* eleven utilities given out of order: p10 is the second smallest
C30_WitnessP10 ==
    /\ Scored
    /\ cfgs.selection.aggregate = "p10"
    /\ Len(U) = 11
    /\ U[11] = -10
    /\ U[5] = 0
    /\ outcome.selection_score = Surd(0, 0, 0, 1)

\* one utility: the score is that utility
C30_WitnessSingle ==
    /\ Scored
    /\ cfgs.selection.aggregate = "mean_minus_lambda_std"
    /\ cfgs.selection.lambda_std = 7
    /\ U = <<-3>>
    /\ Cmp(outcome.selection_score, Surd(-3, 0, 0, 1)) = 0

-----------------------------------------------------------------------------
(* Properties of turn_utility, stated on the samples of the rollouts *)

\* how many reveals of outcome o are of a card type in the set types
Reveals(o, types) ==
    Cardinality({k \in 1..Len(o.applied) : o.applied[k].card_type \in types})

\* one default weight per reveal, by class
WeightedReveals(o) ==
    10 * Reveals(o, {o.team})
        - 100 * Reveals(o, {"ASSASSIN"})
        - 10 * Reveals(o, {other_team(o.team)})
        - 3 * Reveals(o, CardTypes \ {"RED", "BLUE", "ASSASSIN"})

C31_WitnessWin ==
    /\ InTurn
    /\ \E s \in RolloutSamples :
          /\ s.outcome.game_over
          /\ s.outcome.winner = s.outcome.team
          /\ s.utility = 10 * Len(s.outcome.applied)

-----------------------------------------------------------------------------
(* Properties of the board generators *)

\* how many entries of the list are x
CountOf(list, x) == Cardinality({i \in 1..Len(list) : list[i] = x})

NoDuplicates(list) == \A i, k \in 1..Len(list) : list[i] = list[k] => i = k

\* 25 different words and a key of 9, 8, 7 and 1 cards
StandardDeal(words, key, first) ==
    /\ Len(words) = 25
    /\ NoDuplicates(words)
    /\ Len(key) = 25
    /\ CountOf(key, first) = 9
    /\ CountOf(key, other_team(first)) = 8
    /\ CountOf(key, "NEUTRAL") = 7
    /\ CountOf(key, "ASSASSIN") = 1

C32_WitnessBenchmark ==
    /\ pc = "board"
    /\ board.starting_team = "RED"
    /\ board.key[1] = "ASSASSIN"

-----------------------------------------------------------------------------
(* Properties of GameRules *)

\* the last call was op and it returned
Did(op) == call.op = op /\ ~outcome.raised

\* the state the last call was given
Given == call.before

\* the unrevealed cards of a type, counted on the key
Unrevealed(s, card_type) ==
    Cardinality({i \in 1..Len(s.key) : s.key[i] = card_type /\ ~s.revealed[i]})

\* the card a guess reveals
GuessedCard == Given.key[word_index(Given.words, call.arg)]

\* C33: make_guess ends the game exactly when the revealed card is the
\* ASSASSIN, and then the winner is the opponent of the team that guessed, or
\* when the remaining count of a team reaches zero, and then the winner is
\* that team whichever team guessed; after any other guess game_over stays
\* false.
C33_GameEndsOnAssassinOrLastCard ==
    Did("make_guess") =>
        /\ state.game_over <=>
              \/ GuessedCard = "ASSASSIN"
              \/ \E t \in Teams : Unrevealed(state, for_team(t)) = 0
        /\ GuessedCard = "ASSASSIN" => state.winner = opponent(Given.current_team)
        /\ \A t \in Teams :
              (GuessedCard # "ASSASSIN" /\ Unrevealed(state, for_team(t)) = 0)
                  => state.winner = t
        /\ ~state.game_over => state.winner = None
        /\ outcome.result.game_over = state.game_over
        /\ outcome.result.winner = state.winner

\* a team reveals the last card of the other team, which wins
C33_Witness ==
    /\ Did("make_guess")
    /\ GuessedCard = for_team(opponent(Given.current_team))
    /\ state.game_over
    /\ state.winner = opponent(Given.current_team)

\* a team reveals its own last card and wins
C33_WitnessOwn ==
    /\ Did("make_guess")
    /\ GuessedCard = for_team(Given.current_team)
    /\ state.winner = Given.current_team

\* a guess reveals the assassin
C33_WitnessAssassin ==
    /\ Did("make_guess")
    /\ GuessedCard = "ASSASSIN"
    /\ state.game_over

\* the last call ended a turn and left the game going
TurnEnded ==
    \/ Did("make_guess") /\ outcome.result.turn_ended /\ ~outcome.result.game_over
    \/ Did("pass_turn")
    \/ Did("end_turn") /\ ~Given.game_over
    \/ /\ Did("simulate_guesses")
       /\ Given.current_clue # NoClue
       /\ ~Given.game_over
       /\ ~state.game_over

HandedOver ==
    /\ state.current_team = opponent(Given.current_team)
    /\ state.current_clue = NoClue
    /\ state.guesses_remaining = 0

\* C34: a turn that ends without ending the game (a wrong guess, a correct
\* guess that uses the last allowed guess, pass_turn, simulate_guesses running
\* out of guesses) hands play to the other team exactly once: afterwards
\* current_team is the opponent of the team that held the clue, current_clue
\* is cleared and guesses_remaining is 0; simulate_guesses never switches
\* twice.  A guess that leaves the turn going leaves team and clue alone.
C34_TurnHandedOverOnce ==
    /\ TurnEnded => HandedOver
    /\ (Did("make_guess") /\ ~outcome.result.turn_ended) =>
          /\ state.current_team = Given.current_team
          /\ state.current_clue = Given.current_clue
          /\ state.guesses_remaining = Given.guesses_remaining - 1

\* simulate_guesses: the second guess of the list is wrong and ends the turn
C34_Witness ==
    /\ Did("simulate_guesses")
    /\ Len(outcome.result.guesses) = 2
    /\ outcome.result.guesses[2].turn_ended
    /\ ~state.game_over
    /\ HandedOver

\* simulate_guesses: the list runs out while guesses are left
C34_WitnessListRunsOut ==
    /\ Did("simulate_guesses")
    /\ Len(outcome.result.guesses) = 1
    /\ ~outcome.result.guesses[1].turn_ended
    /\ HandedOver

\* make_guess: a correct guess uses the last allowed guess
C34_WitnessLastGuess ==
    /\ Did("make_guess")
    /\ outcome.result.correct
    /\ TurnEnded
    /\ HandedOver

\* the conditions under which give_clue accepts the clue
ClueAccepted(s, clue) ==
    /\ ~s.game_over
    /\ s.current_clue = NoClue
    /\ clue.team = s.current_team
    /\ \A i \in 1..Len(s.words) : upper(s.words[i]) # upper(clue.word)

\* C35: give_clue succeeds exactly when the game is not over, no clue is
\* set, clue.team is current_team and the clue word is not a board word
\* whatever its case; on success current_clue is the clue, guesses_remaining
\* is number + 1 and the clue is appended to clue_history; otherwise it
\* raises and the state it was given is unchanged.
C35_GiveClue ==
    call.op = "give_clue" =>
        /\ outcome.raised <=> ~ClueAccepted(Given, call.arg)
        /\ ~outcome.raised =>
              state = [Given EXCEPT !.current_clue = call.arg,
                                    !.guesses_remaining = call.arg.number + 1,
                                    !.clue_history = Append(@, call.arg)]
        /\ outcome.raised => state = Given

\* a clue is accepted after an earlier one
C35_Witness ==
    /\ Did("give_clue")
    /\ Len(state.clue_history) = 2
    /\ state.guesses_remaining = 1

\* a clue is refused only because it is a board word in lower case
C35_WitnessBoardWord ==
    /\ call.op = "give_clue"
    /\ outcome.raised
    /\ ~Given.game_over
    /\ Given.current_clue = NoClue
    /\ call.arg.team = Given.current_team
    /\ state = Given

\* the last guess simulate_guesses made
LastGuess == outcome.result.guesses[Len(outcome.result.guesses)]

\* C36: the turn_ended_by label of simulate_guesses matches the card that
\* ended the turn (assassin, neutral, opponent), and a turn that ended
\* because the team used its last allowed guess on a word of its own is
\* labelled limit.
C36_TurnEndedByMatchesCard ==
    (Did("simulate_guesses") /\ outcome.result.guesses # <<>> /\ LastGuess.turn_ended) =>
        /\ LastGuess.card_type = "ASSASSIN" => outcome.result.turn_ended_by = "assassin"
        /\ (LastGuess.card_type = "NEUTRAL" /\ ~LastGuess.game_over)
              => outcome.result.turn_ended_by = "neutral"
        /\ (LastGuess.card_type = for_team(opponent(Given.current_team))
                /\ ~LastGuess.game_over)
              => outcome.result.turn_ended_by = "opponent"
        /\ (LastGuess.correct /\ ~LastGuess.game_over)
              => outcome.result.turn_ended_by = "limit"

\* C38: after any sequence of give_clue, make_guess, end_turn, pass_turn and
\* simulate_guesses from a generated board, red_remaining is the number of
\* unrevealed RED cards, blue_remaining the number of unrevealed BLUE cards,
\* and game_over holds exactly when the assassin is revealed or one of the
\* two counters is zero.
C38_CountersMatchBoard ==
    /\ state.red_remaining = Unrevealed(state, "RED")
    /\ state.blue_remaining = Unrevealed(state, "BLUE")
    /\ state.game_over <=>
          \/ Unrevealed(state, "ASSASSIN") = 0
          \/ state.red_remaining = 0
          \/ state.blue_remaining = 0

\* the second turn of a game: a team has revealed a card of the other team
\* and one of its own
C38_Witness ==
    /\ Len(state.clue_history) = 2
    /\ Len(state.guess_history) >= 3
    /\ state.red_remaining = 1
    /\ state.blue_remaining = 0
    /\ state.game_over

\* C39: GameState.starting_team returns the same team in every state of a
\* game.
C39_StartingTeamConstant ==
    call.op # "generate_board" => starting_team(state) = starting_team(Given)

-----------------------------------------------------------------------------
(* Properties of the selector *)

\* the rollouts run for the i-th candidate: the tasks made for it
OwnRollouts(i) ==
    LET n == call.rollouts_per_candidate
        results == gathered(state, call.clues, n, call.answers)
    IN  SubSeq(results, (i - 1) * n + 1, i * n)

\* the score aggregated over the rollouts of the i-th candidate
OwnScore(i) == aggregate(call.aggregation, OwnRollouts(i)).score

\* C37: for any list of candidates, also when two of them share the clue
\* word, every candidate gets exactly rollouts_per_candidate rollouts, all
\* simulated with its own clue and number from the same starting state, and
\* the selected candidate is one whose own aggregated score is maximal.
C37_RolloutsPerCandidate ==
    pc = "selected" =>
        /\ \A i \in 1..Len(call.candidates) :
              LET rollouts == outcome.all_rollouts[call.candidates[i].clue]
              IN  /\ Len(rollouts) = call.rollouts_per_candidate
                  /\ outcome.all_scores[i].n_rollouts = call.rollouts_per_candidate
                  /\ \A k \in 1..Len(rollouts) :
                        /\ rollouts[k].clue = call.clues[i]
                        /\ rollouts[k].started = state
        /\ \A k \in 1..Len(call.candidates) :
              ~Less(OwnScore(outcome.selected), OwnScore(k))

\* the same, for lists whose clue words differ
C37_DistinctWords ==
    (pc = "selected"
        /\ \A i, k \in 1..Len(call.candidates) :
              call.candidates[i].clue = call.candidates[k].clue => i = k) =>
        /\ \A i \in 1..Len(call.candidates) :
              /\ outcome.all_rollouts[call.candidates[i].clue] = OwnRollouts(i)
              /\ outcome.all_scores[i].score = OwnScore(i)
        /\ \A k \in 1..Len(call.candidates) :
              ~Less(OwnScore(outcome.selected), OwnScore(k))

-----------------------------------------------------------------------------
(* Properties of the benchmark runner *)

\* the games of the run that the benchmarked agent won: RED's wins where it
\* played RED, BLUE's wins in the mirror games
AgentWon(g) ==
    \/ g.board_id[3] = "red" /\ g.winner = "RED"
    \/ g.board_id[3] = "blue" /\ g.winner = "BLUE"

\* C40: with mirror matches, BenchmarkMetrics.wins and win_rate count exactly
\* the games the benchmarked agent won (RED's wins in the main games, BLUE's
\* wins in the mirror games), and wins + losses never exceeds the number of
\* games.
C40_WinsAreAgentWins ==
    pc = "done" =>
        /\ outcome.wins =
              Cardinality({k \in 1..Len(outcome.games) : AgentWon(outcome.games[k])})
        /\ outcome.win_rate.num = outcome.wins
        /\ outcome.win_rate.den = Len(outcome.games)
        /\ outcome.wins + outcome.losses <= Len(outcome.games)

\* the part of it that holds: wins and losses are RED's and BLUE's wins
C40_WinsAreRedWins ==
    pc = "done" =>
        /\ outcome.wins =
              Cardinality({k \in 1..Len(outcome.games) : outcome.games[k].winner = "RED"})
        /\ outcome.wins + outcome.losses <= Len(outcome.games)
        /\ ~call.mirror =>
              outcome.wins =
                  Cardinality({k \in 1..Len(outcome.games) : AgentWon(outcome.games[k])})

====
